---- MODULE Spec2Model ----
(***************************************************************************)
(* Model of src/vmm/src/builder.rs: build_microvm and the functions it     *)
(* calls.  A build is a sequence of stages (build_microvm's statements, in *)
(* source order for the compilation target); the stages that loop or call  *)
(* an attach_* function are refined into steps.  Every call into another   *)
(* crate (hypervisor, reactor, device manager) may fail.                    *)
(***************************************************************************)
EXTENDS Integers, Sequences, FiniteSets, TLC

(* ------------------------------ bounds -------------------------------- *)
MaxBuilds == 2
MaxVcpus == 3
MaxFs == 2

Builds == 1..MaxBuilds
EventManagers == 1..MaxBuilds

(* ------------------------- program constants -------------------------- *)
Targets == {"x86_64-linux", "aarch64-linux", "aarch64-macos"}

IsX86(t) == t = "x86_64-linux"
IsAarch64(t) == t \in {"aarch64-linux", "aarch64-macos"}
IsLinux(t) == t \in {"x86_64-linux", "aarch64-linux"}
IsMacos(t) == t = "aarch64-macos"

\* Values of crates arch, kernel and vmm_config, which builder.rs only names.
\* Addresses are counted in units of one MMIO window (4 KiB).
CMDLINE_MAX_SIZE == 2048
DEFAULT_KERNEL_CMDLINE_LEN == 120
MMIO_MEM_START == 851968
MMIO_LEN == 1
IRQ_BASE == 5
IRQ_MAX == 15
DESCRIPTOR_LEN == 36
CMDLINE_START == 32

VARIABLES
    target,               \* the cfg(target_arch, target_os) the code was built for
    vm_resources,         \* the VmResources configuration both calls are given
    concurrent,           \* whether the caller issues its calls from two threads
    stdin_pollable,       \* whether the process's stdin can be polled
    pc,                   \* per build: "idle", "run", "done"
    stage,                \* per build: index into BuildStages(target)
    step,                 \* per build: index into the steps of the current attach_* call
    mstep,                \* per build: index into AttachMmioSteps, 0 outside attach_mmio_device
    idx,                  \* per build: loop counter (cpu_index, fs index)
    acq,                  \* per build: the current statement has taken the device lock
    em,                   \* per build: the EventManager passed as event_manager
    ret,                  \* per build: the value build_microvm returned
    trace,                \* per build: the operations completed, in order
    kernel_cmdline,       \* per build: the Cmdline
    vcpus,                \* per build: the Vec<Vcpu> of the factory / of build_microvm
    vmm,                  \* per build: the other locals of build_microvm and Vmm fields
    mmio_device_manager,  \* per build: the MMIODeviceManager
    lock,                 \* per device: the build holding its Mutex, 0 when free
    devstate,             \* per device: what was injected into it
    reactor,              \* per EventManager: its subscribers, in registration order
    serial,               \* what setup_serial_device returned to the caller
    display               \* a StartMicrovmError and the message formatted from it

vars == <<target, vm_resources, concurrent, stdin_pollable, pc, stage, step, mstep, idx, acq, em, ret,
          trace, kernel_cmdline, vcpus, vmm, mmio_device_manager, lock,
          devstate, reactor, serial, display>>

(* ----------------------------- devices -------------------------------- *)
\* A device is named by who created it (0: the configuration, b: build b),
\* its class and, for filesystem devices, its position in fs.list.
Dev(own, class, n) == [own |-> own, class |-> class, n |-> n]
NoDev == Dev(0, "none", 0)
VmmDev(b) == Dev(b, "vmm", 0)
SerialDev == Dev(0, "serial", 0)
Devices ==
    {Dev(0, "fs", n) : n \in 1..(MaxFs + 1)} \cup {Dev(0, "vsock", 0), SerialDev}
    \cup {Dev(b, c, 0) : b \in Builds, c \in {"balloon", "console", "vmm"}}

\* Balloon::id(), "hvc0" (builder.rs:878), Fs::id(), Vsock::id()
DeviceId(d) ==
    CASE d.class = "balloon" -> <<"balloon", 0>>
      [] d.class = "console" -> <<"hvc0", 0>>
      [] d.class = "fs" -> <<"fs", d.n>>
      [] d.class = "vsock" -> <<"vsock", 0>>
      [] OTHER -> <<"", 0>>

\* VirtioDevice::device_type()
DeviceType(d) ==
    CASE d.class = "balloon" -> "TYPE_BALLOON"
      [] d.class = "console" -> "TYPE_CONSOLE"
      [] d.class = "fs" -> "TYPE_FS"
      [] d.class = "vsock" -> "TYPE_VSOCK"
      [] OTHER -> "TYPE_NONE"

(* ------------------------------ inputs -------------------------------- *)
\* An Option is a sequence of length 0 (None) or 1 (Some).
None == <<>>
Some(x) == <<x>>
IsSome(o) == Len(o) = 1

\* The prologue and epilogue the configuration carries, by their lengths: none;
\* short ones; an epilogue, a prologue-plus-descriptor and a prologue that do
\* not fit in CMDLINE_MAX_SIZE.
CmdlineChoices ==
    {[prolog |-> None, epilog |-> None],
     [prolog |-> Some(16), epilog |-> Some(8)],
     [prolog |-> None, epilog |-> Some(CMDLINE_MAX_SIZE)],
     [prolog |-> Some(CMDLINE_MAX_SIZE - 20), epilog |-> None],
     [prolog |-> Some(CMDLINE_MAX_SIZE + 1), epilog |-> None]}

\* vcpu_config.vcpu_count: a single vCPU, or as many as the bound allows
VcpuCounts == {1, MaxVcpus}

Configs ==
    {[kernel_bundle |-> k, mem_size_mib |-> m, vcpu_count |-> n, fs |-> f, vsock |-> v,
      prolog |-> c.prolog, epilog |-> c.epilog] :
        k \in BOOLEAN, m \in BOOLEAN, n \in VcpuCounts, f \in 0..MaxFs,
        v \in BOOLEAN, c \in CmdlineChoices}

(* ------------------------- build_microvm stages ----------------------- *)
\* Faulty variant: mem_size_mib is looked up only after the Vm was set up.
BuildStagesMemSizeLate(t) ==
    <<"kernel_bundle", "build_raw", "create_guest_memory", "cmdline_seed", "setup_vm",
      "mem_size_mib", "exit_evt">>
    \o (IF IsX86(t) THEN <<"pio_device_manager">> ELSE <<>>)
    \o <<"mmio_device_manager">>
    \o (IF IsX86(t)
        THEN <<"setup_interrupt_controller", "attach_legacy_devices", "create_vcpus">>
        ELSE <<"create_vcpus", "setup_interrupt_controller", "attach_legacy_devices">>)
    \o <<"vmm", "attach_balloon_device", "attach_console_devices", "attach_fs_devices",
         "attach_unixsock_vsock_device", "cmdline_epilog">>
    \o (IF IsX86(t) THEN <<"load_cmdline">> ELSE <<>>)
    \o <<"configure_system", "start_vcpus", "add_subscriber_vmm", "return">>

\* Faulty variant: every target creates the interrupt controller first, as x86_64 does.
BuildStagesIrqchipFirst(t) ==
    <<"kernel_bundle", "build_raw", "mem_size_mib", "create_guest_memory",
      "cmdline_seed", "setup_vm", "exit_evt">>
    \o (IF IsX86(t) THEN <<"pio_device_manager">> ELSE <<>>)
    \o <<"mmio_device_manager">>
    \o <<"setup_interrupt_controller", "attach_legacy_devices", "create_vcpus">>
    \o <<"vmm", "attach_balloon_device", "attach_console_devices", "attach_fs_devices",
         "attach_unixsock_vsock_device", "cmdline_epilog">>
    \o (IF IsX86(t) THEN <<"load_cmdline">> ELSE <<>>)
    \o <<"configure_system", "start_vcpus", "add_subscriber_vmm", "return">>

\* Faulty variant: the command line is written to guest memory before the
\* epilogue is appended.
BuildStagesLoadEarly(t) ==
    <<"kernel_bundle", "build_raw", "mem_size_mib", "create_guest_memory",
      "cmdline_seed", "setup_vm", "exit_evt">>
    \o (IF IsX86(t) THEN <<"pio_device_manager">> ELSE <<>>)
    \o <<"mmio_device_manager">>
    \o (IF IsX86(t)
        THEN <<"setup_interrupt_controller", "attach_legacy_devices", "create_vcpus">>
        ELSE <<"create_vcpus", "setup_interrupt_controller", "attach_legacy_devices">>)
    \o <<"vmm", "attach_balloon_device", "attach_console_devices", "attach_fs_devices",
         "attach_unixsock_vsock_device">>
    \o (IF IsX86(t) THEN <<"load_cmdline">> ELSE <<>>)
    \o <<"cmdline_epilog", "configure_system", "start_vcpus", "add_subscriber_vmm", "return">>

\* Faulty variant: the Vmm is wrapped and added to the reactor before the
\* vCPU threads are started.
BuildStagesRegisterFirst(t) ==
    <<"kernel_bundle", "build_raw", "mem_size_mib", "create_guest_memory",
      "cmdline_seed", "setup_vm", "exit_evt">>
    \o (IF IsX86(t) THEN <<"pio_device_manager">> ELSE <<>>)
    \o <<"mmio_device_manager">>
    \o (IF IsX86(t)
        THEN <<"setup_interrupt_controller", "attach_legacy_devices", "create_vcpus">>
        ELSE <<"create_vcpus", "setup_interrupt_controller", "attach_legacy_devices">>)
    \o <<"vmm", "attach_balloon_device", "attach_console_devices", "attach_fs_devices",
         "attach_unixsock_vsock_device", "cmdline_epilog">>
    \o (IF IsX86(t) THEN <<"load_cmdline">> ELSE <<>>)
    \o <<"configure_system", "add_subscriber_vmm", "start_vcpus", "return">>

\* Faulty variant: the vCPU threads are started before configure_system.
BuildStagesStartEarly(t) ==
    <<"kernel_bundle", "build_raw", "mem_size_mib", "create_guest_memory",
      "cmdline_seed", "setup_vm", "exit_evt">>
    \o (IF IsX86(t) THEN <<"pio_device_manager">> ELSE <<>>)
    \o <<"mmio_device_manager">>
    \o (IF IsX86(t)
        THEN <<"setup_interrupt_controller", "attach_legacy_devices", "create_vcpus">>
        ELSE <<"create_vcpus", "setup_interrupt_controller", "attach_legacy_devices">>)
    \o <<"vmm", "attach_balloon_device", "attach_console_devices", "attach_fs_devices",
         "attach_unixsock_vsock_device", "cmdline_epilog">>
    \o (IF IsX86(t) THEN <<"load_cmdline">> ELSE <<>>)
    \o <<"start_vcpus", "configure_system", "add_subscriber_vmm", "return">>

\* The statements of build_microvm (builder.rs:264-473) in source order, as
\* compiled for target t.
BuildStages(t) ==
    <<"kernel_bundle", "build_raw", "mem_size_mib", "create_guest_memory",
      "cmdline_seed", "setup_vm", "exit_evt">>
    \o (IF IsX86(t) THEN <<"pio_device_manager">> ELSE <<>>)
    \o <<"mmio_device_manager">>
    \o (IF IsX86(t)
        THEN <<"setup_interrupt_controller", "attach_legacy_devices", "create_vcpus">>
        ELSE <<"create_vcpus", "setup_interrupt_controller", "attach_legacy_devices">>)
    \o <<"vmm", "attach_balloon_device", "attach_console_devices", "attach_fs_devices",
         "attach_unixsock_vsock_device", "cmdline_epilog">>
    \o (IF IsX86(t) THEN <<"load_cmdline">> ELSE <<>>)
    \o <<"configure_system", "start_vcpus", "add_subscriber_vmm", "return">>

\* Faulty variant: the balloon is never added to the reactor.
BalloonStepsNoSubscribe == <<"new", "id", "set_intc", "attach_mmio_device">>

\* The statements of each attach_* function, in source order.
BalloonSteps == <<"new", "add_subscriber", "id", "set_intc", "attach_mmio_device">>

\* Faulty variant: the console is subscribed but never given to attach_mmio_device.
ConsoleStepsNoMmio(t) ==
    <<"new", "set_intc", "set_interactive", "add_subscriber">>
    \o (IF IsLinux(t) THEN <<"register_sigwinch_handler">> ELSE <<>>)

ConsoleSteps(t) ==
    <<"new", "set_intc", "set_interactive", "add_subscriber">>
    \o (IF IsLinux(t) THEN <<"register_sigwinch_handler">> ELSE <<>>)
    \o <<"attach_mmio_device">>

\* Faulty variant: a filesystem device is wired into the address space first.
FsStepsMmioFirst ==
    <<"id", "set_intc", "set_shm_region", "attach_mmio_device", "add_subscriber">>

\* Faulty variant: the interrupt controller and the window are injected after
\* the device was attached.
FsStepsInjectLate ==
    <<"id", "add_subscriber", "attach_mmio_device", "set_intc", "set_shm_region">>

FsSteps == <<"id", "set_intc", "set_shm_region", "add_subscriber", "attach_mmio_device">>

\* Faulty variant: the vsock device is never handed to attach_mmio_device.
VsockStepsNoMmio == <<"add_subscriber", "id", "set_intc">>

\* Faulty variant: the vsock device is attached before it is added to the reactor.
VsockStepsMmioFirst == <<"id", "set_intc", "attach_mmio_device", "add_subscriber">>

VsockSteps == <<"add_subscriber", "id", "set_intc", "attach_mmio_device">>

\* Faulty variant: the descriptor is appended on every target.
AttachMmioStepsAllTargets(t) ==
    <<"device_type", "register_mmio_device", "add_device_to_cmdline">>

AttachMmioSteps(t) ==
    <<"device_type", "register_mmio_device">>
    \o (IF IsX86(t) THEN <<"add_device_to_cmdline">> ELSE <<>>)

\* map_err of each attach_* function on the attach_mmio_device call
BalloonMmioErr == "RegisterBalloonDevice"
ConsoleMmioErr == "RegisterFsDevice"
FsMmioErr == "RegisterFsDevice"
VsockMmioErr == "RegisterVsockDevice"

StepsOf(t, class) ==
    CASE class = "balloon" -> BalloonSteps
      [] class = "console" -> ConsoleSteps(t)
      [] class = "fs" -> FsSteps
      [] class = "vsock" -> VsockSteps
      [] OTHER -> <<>>

MmioErrOf(class) ==
    CASE class = "balloon" -> BalloonMmioErr
      [] class = "console" -> ConsoleMmioErr
      [] class = "fs" -> FsMmioErr
      [] class = "vsock" -> VsockMmioErr
      [] OTHER -> "none"

(* ------------------------------- state -------------------------------- *)
NoRet == [kind |-> "none", err |-> "", handle |-> NoDev]
Ok(h) == [kind |-> "Ok", err |-> "", handle |-> h]
Err(e) == [kind |-> "Err", err |-> e, handle |-> NoDev]
Panic(e) == [kind |-> "panic", err |-> e, handle |-> NoDev]

Ev(op, d, n) == [op |-> op, dev |-> d, n |-> n]

NoCmdline == [tokens |-> <<>>, len |-> 0]
NoVmm == [arch_mem_regions |-> <<>>, mapped |-> FALSE, guest_memory |-> {}, kernel_at |-> <<>>,
          vm |-> FALSE, exit_evt |-> FALSE, irqchip |-> FALSE,
          pio |-> FALSE, legacy |-> {}, intc |-> 0, shm_region |-> FALSE,
          vcpu |-> <<>>, boot_senders |-> <<>>, built |-> FALSE, cmdline_loaded |-> 0,
          mmio_ret |-> <<>>, guest_cmdline |-> <<>>, cmdline_addr |-> 0, configured |-> FALSE, vcpus_handles |-> <<>>,
          shared |-> FALSE]
NoMmio == [created |-> FALSE, mmio_base |-> 0, irq |-> 0, last_irq |-> 0, devices |-> {}]
\* setup_serial_device has not been called.
NoSerial == [kind |-> "none", err |-> "", em |-> 0, add_subscriber |-> "none"]

\* Nothing has been formatted.
NoDisplay == [self |-> [variant |-> "none", err |-> <<>>], message |-> <<>>]
NoDevState == [created |-> FALSE, intc |-> 0, shm |-> 0, interactive |-> TRUE]

\* Devices of the configuration exist before any build; a build's own
\* balloon, console and Vmm do not.
InitDevState(cfg, d) ==
    IF d.own = 0 /\ ((d.class = "fs" /\ d.n <= cfg.fs) \/ (d.class = "vsock" /\ cfg.vsock))
    THEN [NoDevState EXCEPT !.created = TRUE]
    ELSE NoDevState

InitBuilds(conc, configs) ==
    /\ target \in Targets
    /\ vm_resources \in configs
    /\ concurrent = conc
    /\ stdin_pollable \in BOOLEAN
    /\ pc = [b \in Builds |-> "idle"]
    /\ stage = [b \in Builds |-> 0]
    /\ step = [b \in Builds |-> 0]
    /\ mstep = [b \in Builds |-> 0]
    /\ idx = [b \in Builds |-> 0]
    /\ acq = [b \in Builds |-> FALSE]
    /\ em = [b \in Builds |-> 0]
    /\ ret = [b \in Builds |-> NoRet]
    /\ trace = [b \in Builds |-> <<>>]
    /\ kernel_cmdline = [b \in Builds |-> NoCmdline]
    /\ vcpus = [b \in Builds |-> <<>>]
    /\ vmm = [b \in Builds |-> NoVmm]
    /\ mmio_device_manager = [b \in Builds |-> NoMmio]
    /\ lock = [d \in Devices |-> 0]
    /\ devstate = [d \in Devices |-> InitDevState(vm_resources, d)]
    /\ reactor = [e \in EventManagers |-> <<>>]
    /\ serial = NoSerial

\* No error is being formatted.
InitWith(conc, configs) ==
    /\ InitBuilds(conc, configs)
    /\ display = NoDisplay

\* The caller calls build_microvm once, and a second time while the machine
\* the first call built is running.
Init == InitWith(FALSE, Configs)

(* ------------------------------ helpers ------------------------------- *)
env == <<target, vm_resources, concurrent, stdin_pollable, serial, display>>

Cfg == vm_resources

\* The stage table of every target.
Stages == [t \in Targets |-> BuildStages(t)]

CurStage(b) == IF pc[b] = "run" THEN Stages[target][stage[b]] ELSE "none"

AttachStages ==
    {"attach_balloon_device", "attach_console_devices", "attach_fs_devices",
     "attach_unixsock_vsock_device"}

ClassOfStage(s) ==
    CASE s = "attach_balloon_device" -> "balloon"
      [] s = "attach_console_devices" -> "console"
      [] s = "attach_fs_devices" -> "fs"
      [] s = "attach_unixsock_vsock_device" -> "vsock"
      [] OTHER -> "none"

\* The device the current attach_* call works on.
CurDev(b) ==
    CASE CurStage(b) = "attach_balloon_device" -> Dev(b, "balloon", 0)
      [] CurStage(b) = "attach_console_devices" -> Dev(b, "console", 0)
      [] CurStage(b) = "attach_fs_devices" -> Dev(0, "fs", idx[b] + 1)
      [] CurStage(b) = "attach_unixsock_vsock_device" -> Dev(0, "vsock", 0)
      [] OTHER -> NoDev

\* Whether the current attach_* call has a device to attach: the body of the
\* `for fs in fs_devs.list.iter()` loop, the `if let Some(vsock)` branch.
HasDev(b) ==
    CASE CurStage(b) = "attach_fs_devices" -> idx[b] < Cfg.fs
      [] CurStage(b) = "attach_unixsock_vsock_device" -> Cfg.vsock
      [] OTHER -> CurStage(b) \in AttachStages

CurSteps(b) == StepsOf(target, ClassOfStage(CurStage(b)))

\* The statement build b is at inside an attach_* function, "none" elsewhere.
CurStep(b) ==
    IF HasDev(b) /\ step[b] \in 1..Len(CurSteps(b)) THEN CurSteps(b)[step[b]] ELSE "none"

\* The statement build b is at inside attach_mmio_device, "none" elsewhere.
CurMmioStep(b) ==
    IF CurStep(b) = "attach_mmio_device" /\ mstep[b] \in 1..Len(AttachMmioSteps(target))
    THEN AttachMmioSteps(target)[mstep[b]]
    ELSE "none"

At(b, s) == pc[b] = "run" /\ CurStage(b) = s

Log(b, e) == trace' = [trace EXCEPT ![b] = Append(@, e)]

\* build_microvm returns r (or unwinds): `?`, `Ok(vmm)`, a failed unwrap().
Return(b, r) ==
    /\ pc' = [pc EXCEPT ![b] = "done"]
    /\ ret' = [ret EXCEPT ![b] = r]
    /\ acq' = [acq EXCEPT ![b] = FALSE]
    /\ UNCHANGED <<stage, step, mstep, idx>>

\* Control moves to the next statement of build_microvm.
NextStage(b) ==
    /\ stage' = [stage EXCEPT ![b] = @ + 1]
    /\ step' = [step EXCEPT ![b] = 1]
    /\ mstep' = [mstep EXCEPT ![b] = 1]
    /\ idx' = [idx EXCEPT ![b] = 0]
    /\ acq' = [acq EXCEPT ![b] = FALSE]
    /\ UNCHANGED <<pc, ret>>

\* The attach_* function returns Ok(()), or its loop goes to the next fs device.
AttachDone(b) ==
    IF CurStage(b) = "attach_fs_devices"
    THEN /\ idx' = [idx EXCEPT ![b] = @ + 1]
         /\ step' = [step EXCEPT ![b] = 1]
         /\ mstep' = [mstep EXCEPT ![b] = 1]
         /\ acq' = [acq EXCEPT ![b] = FALSE]
         /\ UNCHANGED <<pc, ret, stage>>
    ELSE NextStage(b)

\* Control moves to the next statement of the current attach_* function, or
\* past its last one.
NextStep(b) ==
    IF step[b] = Len(CurSteps(b))
    THEN AttachDone(b)
    ELSE /\ step' = [step EXCEPT ![b] = @ + 1]
         /\ mstep' = [mstep EXCEPT ![b] = 1]
         /\ acq' = [acq EXCEPT ![b] = FALSE]
         /\ UNCHANGED <<pc, ret, stage, idx>>

\* Cmdline::insert_str (crate kernel): the string is appended, after a space
\* when the line is not empty, unless it does not fit with its terminator.
Fits(c, n) == c.len + (IF c.len > 0 THEN 1 ELSE 0) + n + 1 <= CMDLINE_MAX_SIZE

Token(kind, base, irq) == [kind |-> kind, base |-> base, irq |-> irq]

InsertStr(c, tok, n) ==
    [tokens |-> Append(c.tokens, tok), len |-> c.len + (IF c.len > 0 THEN 1 ELSE 0) + n]

(* --------------------------- build_microvm ---------------------------- *)
\* The caller enters build_microvm(vm_resources, event_manager), with the
\* EventManager of its first call or one of the call's own.  The EventManager
\* is borrowed mutably, so no two calls in progress share one.
Start(b) ==
    /\ pc[b] = "idle"
    /\ \A o \in Builds : o < b => pc[o] # "idle"
    /\ concurrent \/ \A o \in Builds : o < b => ret[o].kind = "Ok"
    /\ \E e \in {1, b} :
         /\ \A o \in Builds : pc[o] = "run" => em[o] # e
         /\ em' = [em EXCEPT ![b] = e]
    /\ pc' = [pc EXCEPT ![b] = "run"]
    /\ stage' = [stage EXCEPT ![b] = 1]
    /\ step' = [step EXCEPT ![b] = 1]
    /\ mstep' = [mstep EXCEPT ![b] = 1]
    /\ UNCHANGED <<env, idx, acq, ret, trace, kernel_cmdline, vcpus, vmm,
                   mmio_device_manager, lock, devstate, reactor>>

\* Faulty variant: the missing kernel bundle is reported as a missing memory size.
KernelBundleWrongError(b) ==
    /\ At(b, "kernel_bundle")
    /\ IF Cfg.kernel_bundle
       THEN NextStage(b) /\ Log(b, Ev("kernel_bundle", NoDev, 0))
       ELSE Return(b, Err("MissingMemSizeConfig")) /\ UNCHANGED trace
    /\ UNCHANGED <<env, em, kernel_cmdline, vcpus, vmm, mmio_device_manager, lock,
                   devstate, reactor>>

\* vm_resources.kernel_bundle().ok_or(MissingKernelConfig)?
KernelBundle(b) ==
    /\ At(b, "kernel_bundle")
    /\ IF Cfg.kernel_bundle
       THEN NextStage(b) /\ Log(b, Ev("kernel_bundle", NoDev, 0))
       ELSE Return(b, Err("MissingKernelConfig")) /\ UNCHANGED trace
    /\ UNCHANGED <<env, em, kernel_cmdline, vcpus, vmm, mmio_device_manager, lock,
                   devstate, reactor>>

\* MmapRegion::build_raw(..).map_err(KernelBundle)?
BuildRaw(b) ==
    /\ At(b, "build_raw")
    /\ \/ NextStage(b) /\ Log(b, Ev("build_raw", NoDev, 0))
       \/ Return(b, Err("KernelBundle")) /\ UNCHANGED trace
    /\ UNCHANGED <<env, em, kernel_cmdline, vcpus, vmm, mmio_device_manager, lock,
                   devstate, reactor>>

\* vm_config().mem_size_mib.ok_or(MissingMemSizeConfig)?, the first argument
\* of the create_guest_memory call
MemSizeMib(b) ==
    /\ At(b, "mem_size_mib")
    /\ IF Cfg.mem_size_mib
       THEN NextStage(b) /\ Log(b, Ev("mem_size_mib", NoDev, 0))
       ELSE Return(b, Err("MissingMemSizeConfig")) /\ UNCHANGED trace
    /\ UNCHANGED <<env, em, kernel_cmdline, vcpus, vmm, mmio_device_manager, lock,
                   devstate, reactor>>

(* ------------------------- create_guest_memory ------------------------ *)
\* kernel_bundle.guest_addr and kernel_bundle.size, in pages
KERNEL_LOAD_ADDR == 1
KERNEL_SIZE == 1

Range(start, size) == [start |-> start, size |-> size]

KernelRange == Range(KERNEL_LOAD_ADDR, KERNEL_SIZE)

\* arch::arch_memory_regions(mem_size, kernel_load_addr, kernel_size) (crate
\* arch): the layouts it may compute, in pages: RAM with a window left for
\* the kernel, RAM that covers the kernel's range, and ranges that overlap
\* one another.
ArchMemoryRegions ==
    {<<Range(0, 1), Range(2, 4)>>, <<Range(0, 6)>>, <<Range(0, 3), Range(2, 4)>>}

Overlaps(r1, r2) == r1.start < r2.start + r2.size /\ r2.start < r1.start + r1.size

Contains(r, addr) == r.start <= addr /\ addr < r.start + r.size

\* GuestMemoryMmap::from_ranges (crate vm_memory) maps the ranges unless two
\* of them overlap or a mapping call fails.
FromRanges(ranges, mapped) ==
    IF mapped /\ \A i \in 1..Len(ranges) : \A j \in 1..Len(ranges) :
                     i # j => ~Overlaps(ranges[i], ranges[j])
    THEN Some({ranges[i] : i \in 1..Len(ranges)})
    ELSE None

\* GuestMemoryMmap::insert_region (crate vm_memory) adds the region unless it
\* overlaps one of the image.
InsertRegion(memory, r) ==
    IF \E m \in memory : Overlaps(m, r) THEN None ELSE Some(memory \cup {r})

GuestMemory(kind, regions, kernel_at) ==
    [kind |-> kind, regions |-> regions, kernel_at |-> kernel_at]

\* Faulty variant: the kernel region is put into the image whatever it overlaps.
CreateGuestMemoryLinuxNoCheck(ranges, mapped) ==
    IF IsSome(FromRanges(ranges, mapped))
    THEN GuestMemory("Ok", FromRanges(ranges, mapped)[1] \cup {KernelRange},
                     Some(KERNEL_LOAD_ADDR))
    ELSE GuestMemory("Err", {}, None)

\* Linux: from_ranges(&arch_mem_regions).and_then(|memory| memory.insert_region(
\* GuestRegionMmap::new(kernel_region, kernel_load_addr)?)).map_err(GuestMemoryMmap)?
CreateGuestMemoryLinux(ranges, mapped) ==
    LET memory == FromRanges(ranges, mapped)
        image == IF IsSome(memory) THEN InsertRegion(memory[1], KernelRange) ELSE None
    IN  IF IsSome(image)
        THEN GuestMemory("Ok", image[1], Some(KERNEL_LOAD_ADDR))
        ELSE GuestMemory("Err", {}, None)

\* macOS: from_ranges(&arch_mem_regions).map_err(GuestMemoryMmap)?, then
\* guest_mem.write(kernel_data, kernel_load_addr).unwrap()
CreateGuestMemoryMacos(ranges, mapped) ==
    LET memory == FromRanges(ranges, mapped)
    IN  IF ~IsSome(memory)
        THEN GuestMemory("Err", {}, None)
        ELSE IF \E m \in memory[1] : Contains(m, KERNEL_LOAD_ADDR)
             THEN GuestMemory("Ok", memory[1], Some(KERNEL_LOAD_ADDR))
             ELSE GuestMemory("panic", {}, None)

\* create_guest_memory(mem_size_mib, kernel_region, kernel_load_addr, kernel_size)?
CreateGuestMemory(b) ==
    /\ At(b, "create_guest_memory")
    /\ \E ranges \in ArchMemoryRegions : \E mapped \in BOOLEAN :
          LET r == IF IsLinux(target)
                   THEN CreateGuestMemoryLinux(ranges, mapped)
                   ELSE CreateGuestMemoryMacos(ranges, mapped)
          IN  /\ vmm' = [vmm EXCEPT ![b].arch_mem_regions = ranges,
                                    ![b].mapped = mapped,
                                    ![b].guest_memory = r.regions,
                                    ![b].kernel_at = r.kernel_at]
              /\ CASE r.kind = "Ok" ->
                        NextStage(b) /\ Log(b, Ev("create_guest_memory", NoDev, 0))
                   [] r.kind = "Err" ->
                        Return(b, Err("GuestMemoryMmap")) /\ UNCHANGED trace
                   [] OTHER ->
                        Return(b, Panic("guest_mem.write")) /\ UNCHANGED trace
    /\ UNCHANGED <<env, em, kernel_cmdline, vcpus, mmio_device_manager, lock,
                   devstate, reactor>>

\* Faulty variant: the prologue is appended to DEFAULT_KERNEL_CMDLINE.
CmdlineSeedBoth(b) ==
    /\ At(b, "cmdline_seed")
    /\ LET seeded == InsertStr(NoCmdline, Token("default", 0, 0), DEFAULT_KERNEL_CMDLINE_LEN)
       IN  /\ NextStage(b)
           /\ Log(b, Ev("cmdline_seed", NoDev, 0))
           /\ kernel_cmdline' = [kernel_cmdline EXCEPT ![b] =
                 IF IsSome(Cfg.prolog) /\ Fits(seeded, Cfg.prolog[1])
                 THEN InsertStr(seeded, Token("prolog", 0, 0), Cfg.prolog[1])
                 ELSE seeded]
    /\ UNCHANGED <<env, em, vcpus, vmm, mmio_device_manager, lock, devstate, reactor>>

\* Cmdline::new(arch::CMDLINE_MAX_SIZE); insert_str(prolog or default).unwrap()
CmdlineSeed(b) ==
    /\ At(b, "cmdline_seed")
    /\ LET tok == Token(IF IsSome(Cfg.prolog) THEN "prolog" ELSE "default", 0, 0)
           n == IF IsSome(Cfg.prolog) THEN Cfg.prolog[1] ELSE DEFAULT_KERNEL_CMDLINE_LEN
       IN  IF Fits(NoCmdline, n)
           THEN /\ NextStage(b)
                /\ Log(b, Ev("cmdline_seed", NoDev, 0))
                /\ kernel_cmdline' = [kernel_cmdline EXCEPT ![b] = InsertStr(NoCmdline, tok, n)]
           ELSE Return(b, Panic("insert_str")) /\ UNCHANGED <<trace, kernel_cmdline>>
    /\ UNCHANGED <<env, em, vcpus, vmm, mmio_device_manager, lock, devstate, reactor>>

\* setup_vm(&guest_memory)?
SetupVm(b) ==
    /\ At(b, "setup_vm")
    /\ \/ /\ NextStage(b)
          /\ Log(b, Ev("setup_vm", NoDev, 0))
          /\ vmm' = [vmm EXCEPT ![b].vm = TRUE]
       \/ Return(b, Err("Internal")) /\ UNCHANGED <<trace, vmm>>
    /\ UNCHANGED <<env, em, kernel_cmdline, vcpus, mmio_device_manager, lock,
                   devstate, reactor>>

\* let serial_device = None; EventFd::new(EFD_NONBLOCK)..map_err(Internal)?
ExitEvt(b) ==
    /\ At(b, "exit_evt")
    /\ \/ /\ NextStage(b)
          /\ Log(b, Ev("exit_evt", NoDev, 0))
          /\ vmm' = [vmm EXCEPT ![b].exit_evt = TRUE]
       \/ Return(b, Err("Internal")) /\ UNCHANGED <<trace, vmm>>
    /\ UNCHANGED <<env, em, kernel_cmdline, vcpus, mmio_device_manager, lock,
                   devstate, reactor>>

\* x86_64: PortIODeviceManager::new(serial_device, exit_evt.try_clone()?)..?
PioDeviceManager(b) ==
    /\ At(b, "pio_device_manager")
    /\ \/ /\ NextStage(b)
          /\ Log(b, Ev("pio_device_manager", NoDev, 0))
          /\ vmm' = [vmm EXCEPT ![b].pio = TRUE]
       \/ Return(b, Err("Internal")) /\ UNCHANGED <<trace, vmm>>
    /\ UNCHANGED <<env, em, kernel_cmdline, vcpus, mmio_device_manager, lock,
                   devstate, reactor>>

\* Faulty variant: the manager is given a pool that starts one line too low.
MmioDeviceManagerLowPool(b) ==
    /\ At(b, "mmio_device_manager")
    /\ NextStage(b)
    /\ Log(b, Ev("mmio_device_manager", NoDev, 0))
    /\ mmio_device_manager' = [mmio_device_manager EXCEPT ![b] =
          [created |-> TRUE, mmio_base |-> MMIO_MEM_START, irq |-> IRQ_BASE - 1,
           last_irq |-> IRQ_MAX, devices |-> {}]]
    /\ vmm' = [vmm EXCEPT ![b].intc = IF IsMacos(target) THEN b ELSE 0]
    /\ UNCHANGED <<env, em, kernel_cmdline, vcpus, lock, devstate, reactor>>

\* MMIODeviceManager::new(MMIO_MEM_START, (IRQ_BASE, IRQ_MAX)); intc is None
\* on Linux and a new Gic on macOS
MmioDeviceManager(b) ==
    /\ At(b, "mmio_device_manager")
    /\ NextStage(b)
    /\ Log(b, Ev("mmio_device_manager", NoDev, 0))
    /\ mmio_device_manager' = [mmio_device_manager EXCEPT ![b] =
          [created |-> TRUE, mmio_base |-> MMIO_MEM_START, irq |-> IRQ_BASE,
           last_irq |-> IRQ_MAX, devices |-> {}]]
    /\ vmm' = [vmm EXCEPT ![b].intc = IF IsMacos(target) THEN b ELSE 0]
    /\ UNCHANGED <<env, em, kernel_cmdline, vcpus, lock, devstate, reactor>>

\* setup_interrupt_controller(&mut vm, ..)?
SetupInterruptController(b) ==
    /\ At(b, "setup_interrupt_controller")
    /\ \/ /\ NextStage(b)
          /\ Log(b, Ev("setup_interrupt_controller", NoDev, 0))
          /\ vmm' = [vmm EXCEPT ![b].irqchip = TRUE]
       \/ Return(b, Err("Internal")) /\ UNCHANGED <<trace, vmm>>
    /\ UNCHANGED <<env, em, kernel_cmdline, vcpus, mmio_device_manager, lock,
                   devstate, reactor>>

(* ----------------------- attach_legacy_devices ------------------------ *)
\* The statements of attach_legacy_devices as compiled for target t;
\* serial_device is None (builder.rs:315), so register_mmio_serial is skipped.
LegacySteps(t) ==
    CASE IsX86(t) -> <<"register_devices", "register_irqfd", "register_irqfd", "register_irqfd">>
      [] t = "aarch64-linux" -> <<"register_mmio_rtc">>
      [] OTHER -> <<"register_mmio_rtc", "register_mmio_gic">>

\* Faulty variant: the two serial events are bound to each other's line.
LegacyIrqsSwapped == <<[evt |-> "com_evt_1_3", irq |-> 3], [evt |-> "com_evt_2_4", irq |-> 4],
                       [evt |-> "kbd_evt", irq |-> 1]>>

\* register_irqfd_evt!(com_evt_1_3, 4); (com_evt_2_4, 3); (kbd_evt, 1)
LegacyIrqs == <<[evt |-> "com_evt_1_3", irq |-> 4], [evt |-> "com_evt_2_4", irq |-> 3],
                [evt |-> "kbd_evt", irq |-> 1]>>

AtLegacy(b, s) ==
    /\ At(b, "attach_legacy_devices")
    /\ step[b] \in 1..Len(LegacySteps(target))
    /\ LegacySteps(target)[step[b]] = s

\* The statement after the current one, or the return of attach_legacy_devices.
LegacyNext(b) ==
    IF step[b] = Len(LegacySteps(target))
    THEN NextStage(b)
    ELSE /\ step' = [step EXCEPT ![b] = @ + 1]
         /\ UNCHANGED <<pc, ret, stage, mstep, idx, acq>>

\* MMIODeviceManager's allocation of the next window and interrupt line
\* (crate device_manager): the entry is recorded and both counters advance.
MmioAllocate(m, type, id, d) ==
    [m EXCEPT !.devices = @ \cup {[type |-> type, id |-> id, base |-> m.mmio_base,
                                    irq |-> m.irq, dev |-> d]},
              !.mmio_base = @ + MMIO_LEN,
              !.irq = @ + 1]

\* x86_64: pio_device_manager.register_devices()..map_err(Internal)?
RegisterDevices(b) ==
    /\ AtLegacy(b, "register_devices")
    /\ \/ /\ LegacyNext(b)
          /\ Log(b, Ev("register_devices", NoDev, 0))
          /\ vmm' = [vmm EXCEPT ![b].legacy = @ \cup {<<"pio", 0>>}]
       \/ Return(b, Err("Internal")) /\ UNCHANGED <<trace, vmm>>
    /\ UNCHANGED <<env, em, kernel_cmdline, vcpus, mmio_device_manager, lock,
                   devstate, reactor>>

\* x86_64: vm.fd().register_irqfd(&pio_device_manager.$evt, $index)..?
RegisterIrqfd(b) ==
    /\ AtLegacy(b, "register_irqfd")
    /\ LET l == LegacyIrqs[step[b] - 1]
       IN  \/ /\ LegacyNext(b)
              /\ Log(b, Ev("register_irqfd", NoDev, l.irq))
              /\ vmm' = [vmm EXCEPT ![b].legacy = @ \cup {<<l.evt, l.irq>>}]
           \/ Return(b, Err("Internal")) /\ UNCHANGED <<trace, vmm>>
    /\ UNCHANGED <<env, em, kernel_cmdline, vcpus, mmio_device_manager, lock,
                   devstate, reactor>>

\* aarch64: mmio_device_manager.register_mmio_rtc(..)..map_err(Internal)?
RegisterMmioRtc(b) ==
    /\ AtLegacy(b, "register_mmio_rtc")
    /\ \/ /\ LegacyNext(b)
          /\ Log(b, Ev("register_mmio_rtc", NoDev, 0))
          /\ mmio_device_manager' = [mmio_device_manager EXCEPT ![b] =
                MmioAllocate(@, "RTC", <<"rtc", 0>>, NoDev)]
       \/ Return(b, Err("Internal")) /\ UNCHANGED <<trace, mmio_device_manager>>
    /\ UNCHANGED <<env, em, kernel_cmdline, vcpus, vmm, lock, devstate, reactor>>

\* macOS: mmio_device_manager.register_mmio_gic(vm, intc)..map_err(Internal)?
RegisterMmioGic(b) ==
    /\ AtLegacy(b, "register_mmio_gic")
    /\ \/ /\ LegacyNext(b)
          /\ Log(b, Ev("register_mmio_gic", NoDev, 0))
          /\ vmm' = [vmm EXCEPT ![b].legacy = @ \cup {<<"gic", 0>>}]
       \/ Return(b, Err("Internal")) /\ UNCHANGED <<trace, vmm>>
    /\ UNCHANGED <<env, em, kernel_cmdline, vcpus, mmio_device_manager, lock,
                   devstate, reactor>>

(* --------------------------- create_vcpus ----------------------------- *)
\* `for cpu_index in 0..vcpu_config.vcpu_count`
VcpuIndices(count) == 0..(count - 1)

\* macOS: `let (boot_sender, boot_receiver) = channel();`: the channel that
\* is created when the current vCPU is a secondary one, numbered by creation.
Channel(b) == Len(vmm[b].boot_senders) + 1

\* Faulty variant: the vCPUs are numbered from one.
NewVcpuOneBased(b, i) ==
    [index |-> i + 1,
     entry_addr |-> IF IsMacos(target) THEN Some(KERNEL_LOAD_ADDR) ELSE None,
     exit_evt |-> b,
     io_bus |-> IF IsX86(target) THEN b ELSE 0,
     intc |-> IF IsMacos(target) THEN vmm[b].intc ELSE 0,
     boot_receiver |-> IF IsMacos(target) /\ i # 0 THEN Channel(b) ELSE 0,
     boot_senders |-> <<>>,
     guest_mem |-> 0]

\* The Vcpu that Vcpu::new_x86_64 / new_aarch64 is asked for at cpu_index i.
NewVcpu(b, i) ==
    [index |-> i,
     entry_addr |-> IF IsMacos(target) THEN Some(KERNEL_LOAD_ADDR) ELSE None,
     exit_evt |-> b,
     io_bus |-> IF IsX86(target) THEN b ELSE 0,
     intc |-> IF IsMacos(target) THEN vmm[b].intc ELSE 0,
     boot_receiver |-> IF IsMacos(target) /\ i # 0 THEN Channel(b) ELSE 0,
     boot_senders |-> <<>>,
     guest_mem |-> 0]

\* Faulty variant: the senders are dropped instead of handed to vCPU 0.
SetBootSendersDropped(vs, senders) == vs

\* vcpus[0].set_boot_senders(boot_senders), macOS only
SetBootSenders(vs, senders) ==
    IF IsMacos(target) THEN [vs EXCEPT ![1].boot_senders = senders] ELSE vs

\* macOS: channel(); boot_senders.push(boot_sender) when cpu_index != 0;
\* then exit_evt.try_clone()? and Vcpu::new_*(cpu_index, ..)?
VcpuNew(b) ==
    /\ At(b, "create_vcpus")
    /\ step[b] = 1
    /\ idx[b] \in VcpuIndices(Cfg.vcpu_count)
    /\ \/ /\ step' = [step EXCEPT ![b] = 2]
          /\ UNCHANGED <<pc, ret, stage, mstep, idx, acq>>
          /\ Log(b, Ev("vcpu_new", NoDev, idx[b]))
          /\ vmm' = [vmm EXCEPT ![b].vcpu = <<NewVcpu(b, idx[b])>>,
                                ![b].boot_senders =
                                    IF IsMacos(target) /\ idx[b] # 0
                                    THEN Append(@, Channel(b)) ELSE @]
          /\ UNCHANGED vcpus
       \/ /\ Return(b, Err("Internal"))
          /\ vcpus' = [vcpus EXCEPT ![b] = <<>>]
          /\ UNCHANGED <<trace, vmm>>
    /\ UNCHANGED <<env, em, kernel_cmdline, mmio_device_manager, lock, devstate, reactor>>

\* Faulty variant: the vcpu is pushed as Vcpu::new_* returned it.
PushVcpuNotConfigured(b) == Append(vcpus[b], vmm[b].vcpu[1])

\* The vector after vcpus.push(vcpu) of the vcpu configured with guest_mem and,
\* where Vcpu::new_* did not take it, GuestAddress(kernel_bundle.guest_addr).
PushVcpu(b) ==
    Append(vcpus[b], [vmm[b].vcpu[1] EXCEPT !.guest_mem = b,
                                            !.entry_addr = Some(KERNEL_LOAD_ADDR)])

\* vcpu.configure_*(guest_mem, entry_addr, ..)?; vcpus.push(vcpu); after the
\* last index the factory returns Ok(vcpus)
VcpuConfigure(b) ==
    /\ At(b, "create_vcpus")
    /\ step[b] = 2
    /\ \/ /\ Log(b, Ev("vcpu_configure", NoDev, idx[b]))
          /\ IF idx[b] + 1 \in VcpuIndices(Cfg.vcpu_count)
             THEN /\ idx' = [idx EXCEPT ![b] = @ + 1]
                  /\ step' = [step EXCEPT ![b] = 1]
                  /\ UNCHANGED <<pc, ret, stage, mstep, acq>>
                  /\ vcpus' = [vcpus EXCEPT ![b] = PushVcpu(b)]
             ELSE /\ NextStage(b)
                  /\ vcpus' = [vcpus EXCEPT ![b] =
                        SetBootSenders(PushVcpu(b), vmm[b].boot_senders)]
          /\ vmm' = [vmm EXCEPT ![b].vcpu = <<>>]
       \/ /\ Return(b, Err("Internal"))
          /\ vcpus' = [vcpus EXCEPT ![b] = <<>>]
          /\ UNCHANGED <<trace, vmm>>
    /\ UNCHANGED <<env, em, kernel_cmdline, mmio_device_manager, lock, devstate,
                   reactor>>

\* shm_region is Some on Linux and None on macOS; let mut vmm = Vmm { .. }
VmmNew(b) ==
    /\ At(b, "vmm")
    /\ NextStage(b)
    /\ Log(b, Ev("vmm", NoDev, 0))
    /\ vmm' = [vmm EXCEPT ![b].shm_region = IsLinux(target), ![b].built = TRUE]
    /\ UNCHANGED <<env, em, kernel_cmdline, vcpus, mmio_device_manager, lock, devstate,
                   reactor>>

(* ------------------------- device attachment -------------------------- *)
AtStep(b, s) == pc[b] = "run" /\ CurStep(b) = s

AtMmio(b, s) == pc[b] = "run" /\ CurMmioStep(b) = s

\* The statements that lock the device's Mutex for their own duration:
\* `x.lock().unwrap().id()`, `.set_intc(..)`, `.set_shm_region(..)`,
\* `.get_sigwinch_fd()`, and `device.device().lock()...device_type()`.
NeedsLock(b) ==
    \/ CurStep(b) \in {"id", "register_sigwinch_handler"}
    \/ CurStep(b) = "set_intc" /\ vmm[b].intc # 0
    \/ CurStep(b) = "set_shm_region" /\ vmm[b].shm_region
    \/ CurMmioStep(b) = "device_type"

\* The guard is a temporary: it is dropped at the end of the statement.
Release(b, d) == lock' = [lock EXCEPT ![d] = 0]

\* Mutex::lock(): blocks while the lock is held, by anyone.
LockDevice(b) ==
    /\ pc[b] = "run"
    /\ NeedsLock(b)
    /\ ~acq[b]
    /\ lock[CurDev(b)] = 0
    /\ lock' = [lock EXCEPT ![CurDev(b)] = b]
    /\ acq' = [acq EXCEPT ![b] = TRUE]
    /\ UNCHANGED <<env, pc, stage, step, mstep, idx, em, ret, trace, kernel_cmdline,
                   vcpus, vmm, mmio_device_manager, devstate, reactor>>

\* Arc::new(Mutex::new(Balloon::new().unwrap())), and the same for
\* Console::new(Box::new(SerialStdin::get()), ..).unwrap()
DeviceNew(b) ==
    /\ AtStep(b, "new")
    /\ \/ /\ NextStep(b)
          /\ Log(b, Ev("new", CurDev(b), 0))
          /\ devstate' = [devstate EXCEPT ![CurDev(b)].created = TRUE]
       \/ Return(b, Panic("unwrap")) /\ UNCHANGED <<trace, devstate>>
    /\ UNCHANGED <<env, em, kernel_cmdline, vcpus, vmm, mmio_device_manager, lock,
                   reactor>>

\* let id = String::from(x.lock().unwrap().id());
ReadId(b) ==
    /\ AtStep(b, "id")
    /\ acq[b]
    /\ NextStep(b)
    /\ Release(b, CurDev(b))
    /\ Log(b, Ev("id", CurDev(b), 0))
    /\ UNCHANGED <<env, em, kernel_cmdline, vcpus, vmm, mmio_device_manager, devstate,
                   reactor>>

\* if let Some(intc) = intc { x.lock().unwrap().set_intc(intc); }
SetIntc(b) ==
    /\ AtStep(b, "set_intc")
    /\ IF vmm[b].intc # 0
       THEN /\ acq[b]
            /\ Release(b, CurDev(b))
            /\ Log(b, Ev("set_intc", CurDev(b), 0))
            /\ devstate' = [devstate EXCEPT ![CurDev(b)].intc = vmm[b].intc]
       ELSE UNCHANGED <<lock, trace, devstate>>
    /\ NextStep(b)
    /\ UNCHANGED <<env, em, kernel_cmdline, vcpus, vmm, mmio_device_manager, reactor>>

\* if let Some(ref shm) = shm_region { fs.lock().unwrap().set_shm_region(shm.clone()); }
SetShmRegion(b) ==
    /\ AtStep(b, "set_shm_region")
    /\ IF vmm[b].shm_region
       THEN /\ acq[b]
            /\ Release(b, CurDev(b))
            /\ Log(b, Ev("set_shm_region", CurDev(b), 0))
            /\ devstate' = [devstate EXCEPT ![CurDev(b)].shm = b]
       ELSE UNCHANGED <<lock, trace, devstate>>
    /\ NextStep(b)
    /\ UNCHANGED <<env, em, kernel_cmdline, vcpus, vmm, mmio_device_manager, reactor>>

\* event_manager.is_pollable(stdin) holds: the `if` body is skipped
StdinPollable(b) ==
    /\ AtStep(b, "set_interactive")
    /\ stdin_pollable
    /\ ~acq[b]
    /\ NextStep(b)
    /\ UNCHANGED <<env, em, trace, kernel_cmdline, vcpus, vmm, mmio_device_manager, lock,
                   devstate, reactor>>

\* !is_pollable(stdin): console.lock() of `console.lock().unwrap().set_interactive(false)`
StdinNotPollable(b) ==
    /\ AtStep(b, "set_interactive")
    /\ ~stdin_pollable
    /\ ~acq[b]
    /\ lock[CurDev(b)] = 0
    /\ lock' = [lock EXCEPT ![CurDev(b)] = b]
    /\ acq' = [acq EXCEPT ![b] = TRUE]
    /\ UNCHANGED <<env, pc, stage, step, mstep, idx, em, ret, trace, kernel_cmdline,
                   vcpus, vmm, mmio_device_manager, devstate, reactor>>

\* .set_interactive(false), and the guard is dropped
SetInteractive(b) ==
    /\ AtStep(b, "set_interactive")
    /\ acq[b]
    /\ NextStep(b)
    /\ Release(b, CurDev(b))
    /\ Log(b, Ev("set_interactive", CurDev(b), 0))
    /\ devstate' = [devstate EXCEPT ![CurDev(b)].interactive = FALSE]
    /\ UNCHANGED <<env, em, kernel_cmdline, vcpus, vmm, mmio_device_manager, reactor>>

\* EventManager::add_subscriber (crate polly): it locks the subscriber to read
\* its interest list and fails when the subscriber is registered already or
\* epoll refuses it.
Subscribe(e, d) == [reactor EXCEPT ![e] = Append(@, d)]

Subscribed(e, d) == \E i \in 1..Len(reactor[e]) : reactor[e][i] = d

\* Faulty variant: a refused subscription of a device is ignored, as
\* setup_serial_device ignores the serial device's.
AddSubscriberSwallows(b) ==
    /\ AtStep(b, "add_subscriber")
    /\ lock[CurDev(b)] = 0
    /\ NextStep(b)
    /\ \/ /\ ~Subscribed(em[b], CurDev(b))
          /\ Log(b, Ev("add_subscriber", CurDev(b), 0))
          /\ reactor' = Subscribe(em[b], CurDev(b))
       \/ UNCHANGED <<trace, reactor>>
    /\ UNCHANGED <<env, em, kernel_cmdline, vcpus, vmm, mmio_device_manager, lock,
                   devstate>>

\* event_manager.add_subscriber(x.clone()).map_err(RegisterEvent)?
AddSubscriber(b) ==
    /\ AtStep(b, "add_subscriber")
    /\ lock[CurDev(b)] = 0
    /\ \/ /\ ~Subscribed(em[b], CurDev(b))
          /\ NextStep(b)
          /\ Log(b, Ev("add_subscriber", CurDev(b), 0))
          /\ reactor' = Subscribe(em[b], CurDev(b))
       \/ Return(b, Err("RegisterEvent")) /\ UNCHANGED <<trace, reactor>>
    /\ UNCHANGED <<env, em, kernel_cmdline, vcpus, vmm, mmio_device_manager, lock,
                   devstate>>

\* Linux: register_sigwinch_handler(console.lock().unwrap().get_sigwinch_fd())
\*            .map_err(RegisterFsSigwinch)?
RegisterSigwinchHandler(b) ==
    /\ AtStep(b, "register_sigwinch_handler")
    /\ acq[b]
    /\ Release(b, CurDev(b))
    /\ \/ NextStep(b) /\ Log(b, Ev("register_sigwinch_handler", CurDev(b), 0))
       \/ Return(b, Err("RegisterFsSigwinch")) /\ UNCHANGED trace
    /\ UNCHANGED <<env, em, kernel_cmdline, vcpus, vmm, mmio_device_manager, devstate,
                   reactor>>

(* ------------------------- attach_mmio_device ------------------------- *)
\* Control moves to the next statement of attach_mmio_device, or returns
\* Ok(()) to the attach_* function, which goes on after its `?`.
MmioNext(b) ==
    IF mstep[b] = Len(AttachMmioSteps(target))
    THEN NextStep(b)
    ELSE /\ mstep' = [mstep EXCEPT ![b] = @ + 1]
         /\ acq' = [acq EXCEPT ![b] = FALSE]
         /\ UNCHANGED <<pc, ret, stage, step, idx>>

\* Faulty variant: the guard taken for device_type() lives to the end of attach_mmio_device.
DeviceTypeStepHoldsGuard(b) ==
    /\ AtMmio(b, "device_type")
    /\ acq[b]
    /\ MmioNext(b)
    /\ Log(b, Ev("device_type", CurDev(b), 0))
    /\ UNCHANGED <<env, em, kernel_cmdline, vcpus, vmm, mmio_device_manager, lock,
                   devstate, reactor>>

\* let type_id = device.device().lock().expect("Poisoned device lock").device_type();
DeviceTypeStep(b) ==
    /\ AtMmio(b, "device_type")
    /\ acq[b]
    /\ MmioNext(b)
    /\ Release(b, CurDev(b))
    /\ Log(b, Ev("device_type", CurDev(b), 0))
    /\ UNCHANGED <<env, em, kernel_cmdline, vcpus, vmm, mmio_device_manager, devstate,
                   reactor>>

\* MMIODeviceManager::register_mmio_device (crate device_manager) can take the
\* device when an interrupt line is left and no device of that type has the id.
CanRegister(m, type, id) ==
    /\ m.irq <= m.last_irq
    /\ ~\E r \in m.devices : r.type = type /\ r.id = id

\* Faulty variant: a failed registration undoes the registrations made before it.
RegisterMmioDeviceRollback(b) ==
    /\ AtMmio(b, "register_mmio_device")
    /\ lock[CurDev(b)] = 0
    /\ LET d == CurDev(b)
           m == mmio_device_manager[b]
       IN  \/ /\ CanRegister(m, DeviceType(d), DeviceId(d))
              /\ MmioNext(b)
              /\ Log(b, Ev("register_mmio_device", d, 0))
              /\ mmio_device_manager' = [mmio_device_manager EXCEPT ![b] =
                    MmioAllocate(m, DeviceType(d), DeviceId(d), d)]
              /\ vmm' = [vmm EXCEPT ![b].mmio_ret = <<m.mmio_base, m.irq>>]
           \/ /\ Return(b, Err(MmioErrOf(d.class)))
              /\ mmio_device_manager' = [mmio_device_manager EXCEPT ![b].devices = {}]
              /\ UNCHANGED <<trace, vmm>>
    /\ UNCHANGED <<env, em, kernel_cmdline, vcpus, lock, devstate, reactor>>

\* let (_mmio_base, _irq) = vmm.mmio_device_manager.register_mmio_device(..)?;
\* the manager locks the device while it wires it up
RegisterMmioDevice(b) ==
    /\ AtMmio(b, "register_mmio_device")
    /\ lock[CurDev(b)] = 0
    /\ LET d == CurDev(b)
           m == mmio_device_manager[b]
       IN  \/ /\ CanRegister(m, DeviceType(d), DeviceId(d))
              /\ MmioNext(b)
              /\ Log(b, Ev("register_mmio_device", d, 0))
              /\ mmio_device_manager' = [mmio_device_manager EXCEPT ![b] =
                    MmioAllocate(m, DeviceType(d), DeviceId(d), d)]
              /\ vmm' = [vmm EXCEPT ![b].mmio_ret = <<m.mmio_base, m.irq>>]
           \/ /\ Return(b, Err(MmioErrOf(d.class)))
              /\ UNCHANGED <<trace, mmio_device_manager, vmm>>
    /\ UNCHANGED <<env, em, kernel_cmdline, vcpus, lock, devstate, reactor>>

\* x86_64: vmm.mmio_device_manager.add_device_to_cmdline(_cmdline, _mmio_base, _irq)?
AddDeviceToCmdline(b) ==
    /\ AtMmio(b, "add_device_to_cmdline")
    /\ LET tok == Token("virtio_mmio.device", vmm[b].mmio_ret[1], vmm[b].mmio_ret[2])
       IN  IF Fits(kernel_cmdline[b], DESCRIPTOR_LEN)
           THEN /\ MmioNext(b)
                /\ Log(b, Ev("add_device_to_cmdline", CurDev(b), 0))
                /\ kernel_cmdline' = [kernel_cmdline EXCEPT ![b] =
                      InsertStr(@, tok, DESCRIPTOR_LEN)]
           ELSE /\ Return(b, Err(MmioErrOf(CurDev(b).class)))
                /\ UNCHANGED <<trace, kernel_cmdline>>
    /\ UNCHANGED <<env, em, vcpus, vmm, mmio_device_manager, lock, devstate, reactor>>

\* `for fs in fs_devs.list.iter()` is exhausted; `if let Some(vsock)` finds None
NoDevice(b) ==
    /\ pc[b] = "run"
    /\ CurStage(b) \in AttachStages
    /\ ~HasDev(b)
    /\ NextStage(b)
    /\ UNCHANGED <<env, em, trace, kernel_cmdline, vcpus, vmm, mmio_device_manager, lock,
                   devstate, reactor>>

(* ------------------------------ the end ------------------------------- *)
\* if let Some(s) = &kernel_cmdline_epilog { vmm.kernel_cmdline.insert_str(s).unwrap(); }
CmdlineEpilog(b) ==
    /\ At(b, "cmdline_epilog")
    /\ IF IsSome(Cfg.epilog)
       THEN IF Fits(kernel_cmdline[b], Cfg.epilog[1])
            THEN /\ NextStage(b)
                 /\ Log(b, Ev("cmdline_epilog", NoDev, 0))
                 /\ kernel_cmdline' = [kernel_cmdline EXCEPT ![b] =
                       InsertStr(@, Token("epilog", 0, 0), Cfg.epilog[1])]
            ELSE Return(b, Panic("insert_str")) /\ UNCHANGED <<trace, kernel_cmdline>>
       ELSE NextStage(b) /\ UNCHANGED <<trace, kernel_cmdline>>
    /\ UNCHANGED <<env, em, vcpus, vmm, mmio_device_manager, lock, devstate, reactor>>

\* x86_64: load_cmdline(&vmm)?: as_cstring() and kernel::loader::load_cmdline
\* at CMDLINE_START, both mapped to LoadCommandline
LoadCmdline(b) ==
    /\ At(b, "load_cmdline")
    /\ \/ /\ NextStage(b)
          /\ Log(b, Ev("load_cmdline", NoDev, 0))
          /\ vmm' = [vmm EXCEPT ![b].cmdline_loaded = @ + 1,
                                ![b].guest_cmdline = kernel_cmdline[b].tokens,
                                ![b].cmdline_addr = CMDLINE_START]
       \/ Return(b, Err("LoadCommandline")) /\ UNCHANGED <<trace, vmm>>
    /\ UNCHANGED <<env, em, kernel_cmdline, vcpus, mmio_device_manager, lock, devstate,
                   reactor>>

\* vmm.configure_system(vcpus.as_slice(), &None).map_err(Internal)?
ConfigureSystem(b) ==
    /\ At(b, "configure_system")
    /\ \/ /\ NextStage(b)
          /\ Log(b, Ev("configure_system", NoDev, 0))
          /\ vmm' = [vmm EXCEPT ![b].configured = TRUE]
       \/ Return(b, Err("Internal")) /\ UNCHANGED <<trace, vmm>>
    /\ UNCHANGED <<env, em, kernel_cmdline, vcpus, mmio_device_manager, lock, devstate,
                   reactor>>

\* Vmm::start_vcpus (lib.rs): one thread per Vcpu of the vector, its handle
\* pushed to vcpus_handles.
StartedHandles(vs) == [i \in 1..Len(vs) |-> vs[i].index]

\* vmm.start_vcpus(vcpus).map_err(Internal)?
StartVcpus(b) ==
    /\ At(b, "start_vcpus")
    /\ \/ /\ NextStage(b)
          /\ Log(b, Ev("start_vcpus", NoDev, 0))
          /\ vmm' = [vmm EXCEPT ![b].vcpus_handles = StartedHandles(vcpus[b])]
       \/ Return(b, Err("Internal")) /\ UNCHANGED <<trace, vmm>>
    /\ UNCHANGED <<env, em, kernel_cmdline, vcpus, mmio_device_manager, lock, devstate,
                   reactor>>

\* Faulty variant: a refused subscription of the Vmm is ignored.
AddSubscriberVmmIgnoresError(b) ==
    /\ At(b, "add_subscriber_vmm")
    /\ lock[VmmDev(b)] = 0
    /\ vmm' = [vmm EXCEPT ![b].shared = TRUE]
    /\ devstate' = [devstate EXCEPT ![VmmDev(b)].created = TRUE]
    /\ \/ /\ ~Subscribed(em[b], VmmDev(b))
          /\ NextStage(b)
          /\ Log(b, Ev("add_subscriber", VmmDev(b), 0))
          /\ reactor' = Subscribe(em[b], VmmDev(b))
       \/ NextStage(b) /\ UNCHANGED <<trace, reactor>>
    /\ UNCHANGED <<env, em, kernel_cmdline, vcpus, mmio_device_manager, lock>>

\* let vmm = Arc::new(Mutex::new(vmm));
\* event_manager.add_subscriber(vmm.clone()).map_err(RegisterEvent)?
AddSubscriberVmm(b) ==
    /\ At(b, "add_subscriber_vmm")
    /\ lock[VmmDev(b)] = 0
    /\ vmm' = [vmm EXCEPT ![b].shared = TRUE]
    /\ devstate' = [devstate EXCEPT ![VmmDev(b)].created = TRUE]
    /\ \/ /\ ~Subscribed(em[b], VmmDev(b))
          /\ NextStage(b)
          /\ Log(b, Ev("add_subscriber", VmmDev(b), 0))
          /\ reactor' = Subscribe(em[b], VmmDev(b))
       \/ Return(b, Err("RegisterEvent")) /\ UNCHANGED <<trace, reactor>>
    /\ UNCHANGED <<env, em, kernel_cmdline, vcpus, mmio_device_manager, lock>>

\* Ok(vmm)
ReturnOk(b) ==
    /\ At(b, "return")
    /\ Return(b, Ok(VmmDev(b)))
    /\ Log(b, Ev("return", VmmDev(b), 0))
    /\ UNCHANGED <<env, em, kernel_cmdline, vcpus, vmm, mmio_device_manager, lock,
                   devstate, reactor>>

(* ------------------------- setup_serial_device ------------------------ *)
\* The caller calls setup_serial_device(event_manager, input, out) before it
\* builds a machine: EventFd::new(..).map_err(Internal)?; the Serial is made
\* and added to the reactor; `if let Err(e) = add_subscriber(..) { warn!(..) }`;
\* Ok(serial).
SetupSerialDevice(e) ==
    /\ serial = NoSerial
    /\ \A b \in Builds : pc[b] = "idle"
    /\ \/ /\ serial' = [kind |-> "Err", err |-> "Internal", em |-> e, add_subscriber |-> "none"]
          /\ UNCHANGED <<reactor, devstate>>
       \/ /\ serial' = [kind |-> "Ok", err |-> "", em |-> e, add_subscriber |-> "Ok"]
          /\ reactor' = Subscribe(e, SerialDev)
          /\ devstate' = [devstate EXCEPT ![SerialDev].created = TRUE]
       \/ /\ serial' = [kind |-> "Ok", err |-> "", em |-> e, add_subscriber |-> "Err"]
          /\ devstate' = [devstate EXCEPT ![SerialDev].created = TRUE]
          /\ UNCHANGED reactor
    /\ UNCHANGED <<target, vm_resources, concurrent, stdin_pollable, pc, stage, step, mstep,
                   idx, acq, em, ret, trace, kernel_cmdline, vcpus, vmm,
                   mmio_device_manager, lock, display>>

(* ---------------------------- specification --------------------------- *)
Next ==
    \E b \in Builds :
        \/ Start(b)
        \/ KernelBundle(b)
        \/ BuildRaw(b)
        \/ MemSizeMib(b)
        \/ CreateGuestMemory(b)
        \/ CmdlineSeed(b)
        \/ SetupVm(b)
        \/ ExitEvt(b)
        \/ PioDeviceManager(b)
        \/ MmioDeviceManager(b)
        \/ SetupInterruptController(b)
        \/ RegisterDevices(b)
        \/ RegisterIrqfd(b)
        \/ RegisterMmioRtc(b)
        \/ RegisterMmioGic(b)
        \/ VcpuNew(b)
        \/ VcpuConfigure(b)
        \/ VmmNew(b)
        \/ LockDevice(b)
        \/ DeviceNew(b)
        \/ ReadId(b)
        \/ SetIntc(b)
        \/ SetShmRegion(b)
        \/ StdinPollable(b)
        \/ StdinNotPollable(b)
        \/ SetInteractive(b)
        \/ AddSubscriber(b)
        \/ RegisterSigwinchHandler(b)
        \/ DeviceTypeStep(b)
        \/ RegisterMmioDevice(b)
        \/ AddDeviceToCmdline(b)
        \/ NoDevice(b)
        \/ CmdlineEpilog(b)
        \/ LoadCmdline(b)
        \/ ConfigureSystem(b)
        \/ StartVcpus(b)
        \/ AddSubscriberVmm(b)
        \/ ReturnOk(b)

Spec == Init /\ [][Next]_vars

\* The caller calls build_microvm from two threads, each with its own
\* EventManager, on one complete configuration.
ConcConfigs ==
    {c \in Configs : /\ c.kernel_bundle /\ c.mem_size_mib /\ c.vcpu_count = 1
                     /\ c.fs <= 1 /\ c.prolog = None /\ c.epilog = None}

InitConc == InitWith(TRUE, ConcConfigs)

SpecConc == InitConc /\ [][Next]_vars

\* The caller sets up a serial device on one of its EventManagers and then
\* builds machines from a complete configuration.
SerialConfigs ==
    {c \in Configs : /\ c.kernel_bundle /\ c.mem_size_mib /\ c.vcpu_count = 1
                     /\ c.prolog = None /\ c.epilog = None}

InitSerial == InitWith(FALSE, SerialConfigs)

NextSerial ==
    \/ \E e \in EventManagers : SetupSerialDevice(e)
    \/ Next

SpecSerial == InitSerial /\ [][NextSerial]_vars

(* ------------------- impl Display for StartMicrovmError ---------------- *)
\* The members of enum StartMicrovmError.
StartMicrovmError ==
    {"AttachBlockDevice", "CreateRateLimiter", "GuestMemoryMmap", "InitrdLoad", "InitrdRead",
     "Internal", "KernelCmdline", "KernelBundle", "LoadCommandline", "MicroVMAlreadyRunning",
     "MissingKernelConfig", "MissingMemSizeConfig", "NetDeviceNotConfigured",
     "OpenBlockDevice", "RegisterBalloonDevice", "RegisterBlockDevice", "RegisterEvent",
     "RegisterFsDevice", "RegisterFsSigwinch", "RegisterNetDevice", "RegisterVsockDevice"}

\* Text is a sequence of pieces: a literal of the source, or one character.
Quote == "\""
Chars == {"e", Quote}
MaxMsgLen == 2
Strings == UNION {[1..n -> Chars] : n \in 0..MaxMsgLen}

\* A payload (an io::Error, a device_manager::mmio::Error, a String, ...) by
\* what its Display and its Debug implementations write.
Payloads == [display : Strings, debug : Strings]

\* The variants without a payload, and the variants the target's enum has.
UnitVariants ==
    {"InitrdLoad", "MicroVMAlreadyRunning", "MissingKernelConfig", "MissingMemSizeConfig",
     "NetDeviceNotConfigured"}
Variants(t) == IF IsLinux(t) THEN StartMicrovmError ELSE StartMicrovmError \ {"RegisterFsSigwinch"}

StartMicrovmErrors(t) ==
    {[variant |-> v, err |-> None] : v \in UnitVariants}
    \cup {[variant |-> v, err |-> Some(p)] : v \in Variants(t) \ UnitVariants, p \in Payloads}

\* str::replace(from, ""), for a one-character pattern
Replace(str, from) == SelectSeq(str, LAMBDA c : c # from)

\* format!("{}", err) and format!("{:?}", err)
FormatDisplay(err) == err[1].display
FormatDebug(err) == err[1].debug

\* write!(f, "<text>{}", arg)
Write(text, arg) == <<text>> \o arg

\* fn fmt(&self, f: &mut Formatter)
Fmt(self) ==
    LET v == self.variant
        err == self.err
    IN  CASE v = "AttachBlockDevice" ->
                Write("Unable to attach block device to Vmm. Error: ", FormatDisplay(err))
          [] v = "CreateRateLimiter" ->
                Write("Cannot create RateLimiter: ", FormatDisplay(err))
          [] v = "GuestMemoryMmap" ->
                Write("Invalid Memory Configuration: ", Replace(FormatDebug(err), Quote))
          [] v = "InitrdLoad" ->
                <<"Cannot load initrd due to an invalid memory configuration.">>
          [] v = "InitrdRead" ->
                Write("Cannot load initrd due to an invalid image: ", FormatDisplay(err))
          [] v = "Internal" ->
                Write("Internal error while starting microVM: ", FormatDebug(err))
          [] v = "KernelCmdline" ->
                Write("Invalid kernel command line: ", FormatDisplay(err))
          [] v = "KernelBundle" ->
                Write("Cannot inject the kernel into the guest memory due to a problem with the bundle. ",
                      Replace(FormatDisplay(err), Quote))
          [] v = "LoadCommandline" ->
                Write("Cannot load command line string. ", Replace(FormatDisplay(err), Quote))
          [] v = "MicroVMAlreadyRunning" -> <<"Microvm already running.">>
          [] v = "MissingKernelConfig" ->
                <<"Cannot start microvm without kernel configuration.">>
          [] v = "MissingMemSizeConfig" ->
                <<"Cannot start microvm without guest mem_size config.">>
          [] v = "NetDeviceNotConfigured" ->
                <<"The net device configuration is missing the tap device.">>
          [] v = "OpenBlockDevice" ->
                Write("Cannot open the block device backing file. ",
                      Replace(FormatDebug(err), Quote))
          [] v = "RegisterBalloonDevice" ->
                Write("Cannot initialize a MMIO Balloon Device or add a device to the MMIO Bus. ",
                      Replace(FormatDisplay(err), Quote))
          [] v = "RegisterBlockDevice" ->
                Write("Cannot initialize a MMIO Block Device or add a device to the MMIO Bus. ",
                      Replace(FormatDisplay(err), Quote))
          [] v = "RegisterEvent" ->
                Write("Cannot register EventHandler. ", FormatDebug(err))
          [] v = "RegisterFsDevice" ->
                Write("Cannot initialize a MMIO Fs Device or add a device to the MMIO Bus. ",
                      Replace(FormatDisplay(err), Quote))
          [] v = "RegisterFsSigwinch" ->
                Write("Cannot register SIGWINCH file descriptor for Fs Device. ",
                      Replace(FormatDisplay(err), Quote))
          [] v = "RegisterNetDevice" ->
                Write("Cannot initialize a MMIO Network Device or add a device to the MMIO Bus. ",
                      Replace(FormatDisplay(err), Quote))
          [] v = "RegisterVsockDevice" ->
                Write("Cannot initialize a MMIO Vsock Device or add a device to the MMIO Bus. ",
                      Replace(FormatDisplay(err), Quote))

\* format!("{}", err) on a StartMicrovmError the caller holds
Format ==
    /\ display.message = None
    /\ display' = [display EXCEPT !.message = Some(Fmt(display.self))]
    /\ UNCHANGED <<target, vm_resources, concurrent, stdin_pollable, pc, stage, step, mstep,
                   idx, acq, em, ret, trace, kernel_cmdline, vcpus, vmm,
                   mmio_device_manager, lock, devstate, reactor, serial>>

\* The caller holds some StartMicrovmError of the target's enum and formats it.
DisplayConfigs ==
    {c \in SerialConfigs : c.fs = 0 /\ ~c.vsock}

InitDisplay ==
    /\ InitBuilds(FALSE, DisplayConfigs)
    /\ display \in [self : StartMicrovmErrors(target), message : {None}]

NextDisplay == Format

SpecDisplay == InitDisplay /\ [][NextDisplay]_vars

(* ------------------------------- claims ------------------------------- *)
\* The statement of build_microvm build b is at, or returned from.
StageName(b) ==
    IF stage[b] \in 1..Len(Stages[target]) THEN Stages[target][stage[b]] ELSE "none"

StageIndex(s) == CHOOSE i \in 1..Len(Stages[target]) : Stages[target][i] = s

\* Build b has completed the operation op.
Did(b, op) == \E i \in 1..Len(trace[b]) : trace[b][i].op = op

\* The errors of the two configuration checks.
ConfigErrors == {"MissingKernelConfig", "MissingMemSizeConfig"}

\* C1: a call that has returned returned MissingKernelConfig when the kernel
\* bundle is absent, MissingMemSizeConfig when the bundle is present (and was
\* mapped) but mem_size_mib is absent, neither of the two when both are
\* present (so Ok unless a later stage failed), Ok only when both are present,
\* and a machine handle only with Ok.
C1_BuildIffKernelAndMemSize ==
    \A b \in Builds :
        pc[b] = "done" =>
            /\ ~Cfg.kernel_bundle => ret[b] = Err("MissingKernelConfig")
            /\ (Cfg.kernel_bundle /\ ~Cfg.mem_size_mib /\ Did(b, "build_raw"))
                   => ret[b] = Err("MissingMemSizeConfig")
            /\ (Cfg.kernel_bundle /\ Cfg.mem_size_mib) => ret[b].err \notin ConfigErrors
            /\ ret[b].kind = "Ok" => (Cfg.kernel_bundle /\ Cfg.mem_size_mib)
            /\ ret[b].kind # "Ok" => ret[b].handle = NoDev
            /\ ret[b].kind = "Ok" => ret[b].handle = VmmDev(b)

C1_Witness ==
    \E b \in Builds :
        /\ pc[b] = "done"
        /\ Cfg.kernel_bundle /\ ~Cfg.mem_size_mib
        /\ ret[b] = Err("MissingMemSizeConfig")

\* Build b has created nothing at the hypervisor, the device managers or the reactor.
NoHypervisorResource(b) ==
    /\ ~vmm[b].vm /\ ~vmm[b].irqchip /\ ~vmm[b].pio
    /\ vmm[b].legacy = {}
    /\ vcpus[b] = <<>> /\ vmm[b].vcpu = <<>>
    /\ mmio_device_manager[b].devices = {}
    /\ \A op \in {"setup_vm", "setup_interrupt_controller", "vcpu_new", "vcpu_configure",
                    "register_devices", "register_irqfd", "register_mmio_rtc",
                    "register_mmio_device", "add_subscriber"} : ~Did(b, op)

\* C2: when mem_size_mib is absent no build ever has run setup_vm,
\* setup_interrupt_controller, a vCPU creation or a device registration, and a
\* build that got past the kernel bundle returns MissingMemSizeConfig.
C2_MissingMemSizeBeforeHypervisor ==
    ~Cfg.mem_size_mib =>
        \A b \in Builds :
            /\ NoHypervisorResource(b)
            /\ (pc[b] = "done" /\ Did(b, "build_raw")) => ret[b] = Err("MissingMemSizeConfig")

C2_Witness ==
    \E b \in Builds :
        /\ ret[b] = Err("MissingMemSizeConfig")
        /\ Did(b, "build_raw")
        /\ NoHypervisorResource(b)

\* C3: on x86_64 a vCPU is created only after setup_interrupt_controller has
\* completed; on aarch64 setup_interrupt_controller is reached only after all
\* vcpu_count vCPUs have been created and configured.
C3_IrqchipVcpuOrder ==
    \A b \in Builds :
        /\ IsX86(target) =>
              \A j \in 1..Len(trace[b]) :
                  trace[b][j].op = "vcpu_new" =>
                      \E i \in 1..(j - 1) : trace[b][i].op = "setup_interrupt_controller"
        /\ IsX86(target) => (StageName(b) = "create_vcpus" => vmm[b].irqchip)
        /\ (IsAarch64(target)
               /\ (StageName(b) = "setup_interrupt_controller" \/ vmm[b].irqchip)) =>
                  /\ Len(vcpus[b]) = Cfg.vcpu_count
                  /\ \A n \in VcpuIndices(Cfg.vcpu_count) :
                        \E i \in 1..Len(trace[b]) :
                            trace[b][i].op = "vcpu_configure" /\ trace[b][i].n = n

C3_Witness ==
    \E b \in Builds :
        /\ IsAarch64(target)
        /\ vmm[b].irqchip
        /\ Len(vcpus[b]) = MaxVcpus

\* C4: once the factory has returned Ok the vector holds exactly vcpu_count
\* vCPUs with indices 0..vcpu_count-1 in order; a build that failed inside the
\* factory holds no vector; vCPU threads are started for all of them or none.
C4_VcpuFactoryAllOrNothing ==
    \A b \in Builds :
        /\ stage[b] > StageIndex("create_vcpus") =>
              /\ Len(vcpus[b]) = Cfg.vcpu_count
              /\ \A i \in 1..Len(vcpus[b]) : vcpus[b][i].index = i - 1
        /\ (pc[b] = "done" /\ StageName(b) = "create_vcpus") =>
              (ret[b] = Err("Internal") /\ vcpus[b] = <<>>)
        /\ vmm[b].vcpus_handles # <<>> =>
              vmm[b].vcpus_handles = [i \in 1..Cfg.vcpu_count |-> i - 1]

C4_Witness ==
    \E b \in Builds :
        /\ pc[b] = "done"
        /\ StageName(b) = "create_vcpus"
        /\ idx[b] = MaxVcpus - 1
        /\ vcpus[b] = <<>>

\* The virtio devices in build b's memory-mapped registry.
Registered(b) == {r.dev : r \in {x \in mmio_device_manager[b].devices : x.dev # NoDev}}

\* A configuration with one vCPU and neither filesystem nor vsock devices.
MinimalConfig == Cfg.vcpu_count = 1 /\ Cfg.fs = 0 /\ ~Cfg.vsock

\* C5 as stated: a minimal build that succeeded has started exactly one vCPU
\* thread and its memory-mapped device registry is empty.
C5_Original ==
    \A b \in Builds :
        (ret[b].kind = "Ok" /\ MinimalConfig) =>
            /\ Len(vmm[b].vcpus_handles) = 1
            /\ mmio_device_manager[b].devices = {}

\* C5, amended: a minimal build that succeeded has started exactly one vCPU
\* thread and the virtio devices of its memory-mapped registry are exactly
\* the balloon and the console that build_microvm attaches unconditionally.
C5_MinimalBuild ==
    \A b \in Builds :
        (ret[b].kind = "Ok" /\ MinimalConfig) =>
            /\ Len(vmm[b].vcpus_handles) = 1
            /\ Registered(b) = {Dev(b, "balloon", 0), Dev(b, "console", 0)}
            /\ Cardinality({r \in mmio_device_manager[b].devices : r.dev # NoDev}) = 2

C5_Witness ==
    \E b \in Builds :
        /\ ret[b].kind = "Ok"
        /\ MinimalConfig
        /\ Registered(b) = {Dev(b, "balloon", 0), Dev(b, "console", 0)}

\* C6 as stated: a call made while a machine built from the configuration
\* is running executes nothing and returns MicroVMAlreadyRunning.
C6_SecondBuildRejected ==
    \A b \in Builds :
        (\E o \in Builds : o < b /\ ret[o].kind = "Ok") =>
            /\ trace[b] = <<>>
            /\ pc[b] = "done" => ret[b] = Err("MicroVMAlreadyRunning")

\* Build b is attaching devices or past that, and has not returned.
Attaching(b) == pc[b] = "run" /\ stage[b] >= StageIndex("attach_balloon_device")

\* C7 as stated: of two concurrent calls at most one is in device attachment
\* or beyond; the other has failed before.
C7_OneBuildAttaches ==
    \A b \in Builds : \A o \in Builds : (b # o /\ Attaching(b)) => ~Attaching(o)

\* C8: while build b is in attach_mmio_device, its own statement's guard
\* aside, it does not hold the lock of the device it attaches: not at the
\* call, not at register_mmio_device, not at add_device_to_cmdline; nor does
\* it hold it when it calls add_subscriber.
C8_NoLockAcrossAttach ==
    \A b \in Builds :
        (pc[b] = "run" /\ CurStep(b) \in {"attach_mmio_device", "add_subscriber"} /\ ~acq[b])
            => lock[CurDev(b)] # b

C8_Witness ==
    \E b \in Builds :
        /\ AtMmio(b, "register_mmio_device")
        /\ CurDev(b).class = "fs"
        /\ Did(b, "device_type")
        /\ lock[CurDev(b)] = 0

\* C9: every virtio device in a build's memory-mapped registry is a subscriber
\* of that build's reactor, and was added to it before it was registered.
C9_ReactorBeforeMmio ==
    \A b \in Builds :
        /\ \A d \in Registered(b) : Subscribed(em[b], d)
        /\ \A j \in 1..Len(trace[b]) :
              trace[b][j].op = "register_mmio_device" =>
                  \E i \in 1..(j - 1) :
                      trace[b][i].op = "add_subscriber" /\ trace[b][i].dev = trace[b][j].dev

C9_Witness ==
    \E b \in Builds :
        /\ Cardinality(Registered(b)) = MaxFs + 3
        /\ \A d \in Registered(b) : Subscribed(em[b], d)

\* The registration error of a device class.
ClassError(class) ==
    CASE class = "balloon" -> "RegisterBalloonDevice"
      [] class = "fs" -> "RegisterFsDevice"
      [] class = "vsock" -> "RegisterVsockDevice"
      [] OTHER -> "none"

\* C10 as stated: a build that failed inside the attachment of a device
\* returned that device class's registration error, and a console failure is
\* not reported as another class's.
C10_ClassSpecificError ==
    \A b \in Builds :
        (pc[b] = "done" /\ ret[b].kind = "Err" /\ StageName(b) \in AttachStages) =>
            LET class == ClassOfStage(StageName(b))
            IN  IF class = "console"
                THEN ret[b].err \notin {ClassError("balloon"), ClassError("fs"),
                                        ClassError("vsock")}
                ELSE ret[b].err = ClassError(class)

\* The devices that attach_balloon_device, attach_console_devices and
\* attach_fs_devices attach before attach_unixsock_vsock_device is called.
EarlierDevices(b) ==
    {Dev(b, "balloon", 0), Dev(b, "console", 0)} \cup {Dev(0, "fs", n) : n \in 1..Cfg.fs}

\* Everything attach_legacy_devices registers on the target is registered.
LegacyAttached(b) ==
    CASE IsX86(target) ->
            vmm[b].legacy = {<<"pio", 0>>} \cup
                            {<<LegacyIrqs[i].evt, LegacyIrqs[i].irq>> : i \in 1..Len(LegacyIrqs)}
      [] target = "aarch64-linux" ->
            \E r \in mmio_device_manager[b].devices : r.type = "RTC"
      [] OTHER ->
            /\ \E r \in mmio_device_manager[b].devices : r.type = "RTC"
            /\ <<"gic", 0>> \in vmm[b].legacy

\* C11: a build that failed in the vsock device's attach_mmio_device returned
\* RegisterVsockDevice, and in the state in which RegisterVsockDevice is
\* returned the legacy devices, the balloon, the console and every filesystem
\* device are still in their device manager and in the reactor, as is the
\* vsock device's own reactor subscription: nothing was rolled back.
C11_VsockFailureNoRollback ==
    \A b \in Builds :
        /\ (pc[b] = "done" /\ StageName(b) = "attach_unixsock_vsock_device"
               /\ step[b] = Len(VsockSteps)) => ret[b] = Err("RegisterVsockDevice")
        /\ ret[b] = Err("RegisterVsockDevice") =>
              /\ StageName(b) = "attach_unixsock_vsock_device"
              /\ LegacyAttached(b)
              /\ EarlierDevices(b) \subseteq Registered(b)
              /\ \A d \in EarlierDevices(b) \cup {Dev(0, "vsock", 0)} : Subscribed(em[b], d)

C11_Witness ==
    \E b \in Builds :
        /\ ret[b] = Err("RegisterVsockDevice")
        /\ Cfg.fs = MaxFs
        /\ Cardinality(Registered(b)) = MaxFs + 2
        /\ LegacyAttached(b)

\* C12 as stated: the command line never exceeds CMDLINE_MAX_SIZE and an
\* append that does not fit is returned to the caller as an error; no build
\* ends in the panic of an unwrap() on insert_str.
C12_CmdlineOverflowReported ==
    \A b \in Builds :
        /\ kernel_cmdline[b].len <= CMDLINE_MAX_SIZE
        /\ ret[b] # Panic("insert_str")

\* The virtio devices of a build once attach_unixsock_vsock_device has returned.
AllDevices(b) ==
    EarlierDevices(b) \cup (IF Cfg.vsock THEN {Dev(0, "vsock", 0)} ELSE {})

\* C13: the command line is written to guest memory at most once per build,
\* never on aarch64 and exactly once in a successful x86_64 build; when it is
\* written it goes to CMDLINE_START, the legacy devices and every virtio
\* device are attached, each device's descriptor and the epilogue (if any)
\* are in it, and the command line still equals what was written.
C13_CmdlineLoadedOnce ==
    \A b \in Builds :
        /\ vmm[b].cmdline_loaded <= 1
        /\ Cardinality({i \in 1..Len(trace[b]) : trace[b][i].op = "load_cmdline"})
              = vmm[b].cmdline_loaded
        /\ IsAarch64(target) => (vmm[b].cmdline_loaded = 0 /\ vmm[b].guest_cmdline = <<>>)
        /\ (IsX86(target) /\ ret[b].kind = "Ok") => vmm[b].cmdline_loaded = 1
        /\ vmm[b].cmdline_loaded = 1 =>
              /\ vmm[b].cmdline_addr = CMDLINE_START
              /\ LegacyAttached(b)
              /\ Registered(b) = AllDevices(b)
              /\ \A r \in mmio_device_manager[b].devices :
                    \E i \in 1..Len(vmm[b].guest_cmdline) :
                        vmm[b].guest_cmdline[i] = Token("virtio_mmio.device", r.base, r.irq)
              /\ IsSome(Cfg.epilog) =>
                    vmm[b].guest_cmdline[Len(vmm[b].guest_cmdline)].kind = "epilog"
              /\ vmm[b].guest_cmdline = kernel_cmdline[b].tokens

C13_Witness ==
    \E b \in Builds :
        /\ IsX86(target)
        /\ ret[b].kind = "Ok"
        /\ vmm[b].cmdline_loaded = 1
        /\ IsSome(Cfg.epilog)
        /\ Cardinality(Registered(b)) = MaxFs + 3

\* C14: a build that returned Ok ended with configure_system, start_vcpus
\* (one thread per vCPU), the wrapping of the Vmm and its subscription to the
\* reactor, and the return, in this order and after every device was
\* attached; at no point are threads started before configure_system, the
\* Vmm wrapped before the threads are started, or the handle returned without
\* being a subscriber of the reactor.
C14_FinalOrder ==
    \A b \in Builds :
        /\ ret[b].kind = "Ok" =>
              LET n == Len(trace[b])
              IN  /\ n >= 4
                  /\ trace[b][n - 3].op = "configure_system"
                  /\ trace[b][n - 2].op = "start_vcpus"
                  /\ trace[b][n - 1] = Ev("add_subscriber", VmmDev(b), 0)
                  /\ trace[b][n] = Ev("return", VmmDev(b), 0)
                  /\ Len(vmm[b].vcpus_handles) = Cfg.vcpu_count
                  /\ vmm[b].shared
                  /\ Subscribed(em[b], VmmDev(b))
        /\ vmm[b].configured =>
              (Registered(b) = AllDevices(b) /\ (IsX86(target) => vmm[b].cmdline_loaded = 1))
        /\ vmm[b].vcpus_handles # <<>> => vmm[b].configured
        /\ vmm[b].shared => vmm[b].vcpus_handles # <<>>
        /\ Did(b, "return") => Subscribed(em[b], VmmDev(b))

C14_Witness ==
    \E b \in Builds :
        /\ ret[b] = Ok(VmmDev(b))
        /\ Len(vmm[b].vcpus_handles) = MaxVcpus
        /\ Subscribed(em[b], VmmDev(b))

\* The phase of build_microvm an operation belongs to: configuration (0),
\* guest memory (1), hypervisor context (2), interrupt controller, legacy
\* devices and vCPUs (3), virtio device attachment (4), command line and boot
\* data (5); starting the vCPU threads and registering the handle are given
\* the phases start and reg; the return is last.
PhaseOf(e, start, reg) ==
    CASE e.op \in {"kernel_bundle", "build_raw", "mem_size_mib"} -> 0
      [] e.op \in {"create_guest_memory", "cmdline_seed"} -> 1
      [] e.op \in {"setup_vm", "exit_evt", "pio_device_manager", "mmio_device_manager"} -> 2
      [] e.op \in {"setup_interrupt_controller", "vcpu_new", "vcpu_configure",
                   "register_devices", "register_irqfd", "register_mmio_rtc",
                   "register_mmio_gic", "vmm"} -> 3
      [] e.op \in {"cmdline_epilog", "load_cmdline", "configure_system"} -> 5
      [] e.op = "start_vcpus" -> start
      [] e.op = "add_subscriber" /\ e.dev.class = "vmm" -> reg
      [] e.op = "return" -> 8
      [] OTHER -> 4

\* C15 as stated: no operation of a build is followed by one of an earlier
\* phase, with the handle registered with the reactor before the vCPUs are
\* started.
C15_Original ==
    \A b \in Builds :
        \A i \in 1..(Len(trace[b]) - 1) :
            PhaseOf(trace[b][i], 7, 6) <= PhaseOf(trace[b][i + 1], 7, 6)

\* C15, amended: no operation of a build is followed by one of an earlier
\* phase, with the vCPU threads started before the Vmm is wrapped and
\* registered with the reactor.
C15_StageOrder ==
    \A b \in Builds :
        /\ \A i \in 1..(Len(trace[b]) - 1) :
              PhaseOf(trace[b][i], 6, 7) <= PhaseOf(trace[b][i + 1], 6, 7)
        /\ vmm[b].shared => Did(b, "start_vcpus")

C15_Witness ==
    \E b \in Builds :
        /\ ret[b] = Err("RegisterEvent")
        /\ StageName(b) = "add_subscriber_vmm"
        /\ Did(b, "start_vcpus")
        /\ Did(b, "load_cmdline")
        /\ ~Subscribed(em[b], VmmDev(b))

\* What build b added to the reactor, in order.
Subscriptions(b) == SelectSeq(trace[b], LAMBDA e : e.op = "add_subscriber")

\* No element occurs twice in the sequence.
NoRepeat(q) == \A i \in 1..Len(q) : \A j \in (i + 1)..Len(q) : q[i] # q[j]

\* The number of registrations of d in the subscriber list r.
Registrations(r, d) == Cardinality({i \in 1..Len(r) : r[i] = d})

\* C16: after a successful build the build's reactor holds exactly one
\* registration of each virtio device the build attached and exactly one of
\* its machine handle, and nothing else when no other build used that
\* reactor; no build adds a device to the reactor twice and no reactor holds
\* a subscriber twice.
C16_OneRegistrationPerDevice ==
    \A b \in Builds :
        /\ ret[b].kind = "Ok" =>
              /\ \A d \in AllDevices(b) \cup {VmmDev(b)} :
                    Registrations(reactor[em[b]], d) = 1
              /\ (\A o \in Builds : o # b => em[o] # em[b]) =>
                    Len(reactor[em[b]]) = Cardinality(AllDevices(b)) + 1
        /\ NoRepeat(Subscriptions(b))
        /\ \A e \in EventManagers : NoRepeat(reactor[e])

C16_Witness ==
    \E b \in Builds :
        /\ ret[b].kind = "Ok"
        /\ Cardinality(AllDevices(b)) = MaxFs + 3
        /\ Len(reactor[em[b]]) = MaxFs + 4

\* The entries of build b's memory-mapped device registry.
Entries(b) == mmio_device_manager[b].devices

\* C17: within one machine no two registry entries have the same base
\* address or the same interrupt line; every line lies in IRQ_BASE..IRQ_MAX
\* and every base at or after MMIO_MEM_START; the next base and line the
\* manager will hand out lie beyond every one handed out (and advance by one
\* window and one line per entry), so none is reused; on x86_64 the
\* descriptors on the command line carry strictly growing bases and lines.
C17_DisjointMonotonicAllocation ==
    \A b \in Builds :
        /\ \A r1 \in Entries(b) : \A r2 \in Entries(b) :
              r1 # r2 => (r1.base # r2.base /\ r1.irq # r2.irq)
        /\ \A r \in Entries(b) :
              /\ IRQ_BASE <= r.irq /\ r.irq <= IRQ_MAX
              /\ MMIO_MEM_START <= r.base
              /\ r.base < mmio_device_manager[b].mmio_base
              /\ r.irq < mmio_device_manager[b].irq
        /\ mmio_device_manager[b].created =>
              /\ mmio_device_manager[b].mmio_base
                    = MMIO_MEM_START + Cardinality(Entries(b)) * MMIO_LEN
              /\ mmio_device_manager[b].irq = IRQ_BASE + Cardinality(Entries(b))
        /\ LET t == kernel_cmdline[b].tokens
           IN  \A i \in 1..(Len(t) - 1) :
                   (t[i].kind = "virtio_mmio.device" /\ t[i + 1].kind = "virtio_mmio.device")
                       => (t[i].base < t[i + 1].base /\ t[i].irq < t[i + 1].irq)

C17_Witness ==
    \E b \in Builds :
        /\ Cardinality(Entries(b)) = MaxFs + 4
        /\ \E r \in Entries(b) : r.dev = Dev(0, "vsock", 0) /\ r.irq = IRQ_BASE + MaxFs + 3

\* create_guest_memory has been called by build b and has computed its regions.
MemoryComputed(b) == vmm[b].arch_mem_regions # <<>>

\* create_guest_memory has returned an image to build b.
MemoryCreated(b) == vmm[b].guest_memory # {}

NonOverlapping(regions) ==
    \A r1 \in regions : \A r2 \in regions : r1 # r2 => ~Overlaps(r1, r2)

\* A computed range overlaps the range the kernel is to occupy.
OverlapsKernel(ranges) == \E i \in 1..Len(ranges) : Overlaps(ranges[i], KernelRange)

\* C18 as stated: an image that create_guest_memory returned has pairwise
\* non-overlapping regions, one of which is the kernel region and starts at
\* kernel_load_addr; when the computed regions overlap the kernel region or a
\* mapping failed, the build returned GuestMemoryMmap and has no image.
C18_Original ==
    \A b \in Builds :
        /\ MemoryCreated(b) =>
              /\ NonOverlapping(vmm[b].guest_memory)
              /\ KernelRange \in vmm[b].guest_memory
        /\ (MemoryComputed(b) /\ (OverlapsKernel(vmm[b].arch_mem_regions) \/ ~vmm[b].mapped)) =>
              (ret[b] = Err("GuestMemoryMmap") /\ ~MemoryCreated(b))

\* C18, amended: an image that create_guest_memory returned has pairwise
\* non-overlapping regions; on Linux one of them is the kernel region, at
\* kernel_load_addr, and computed regions that overlap it, like overlapping
\* or unmappable regions, make the build return GuestMemoryMmap without an
\* image; on macOS the image has the computed regions only, the kernel is
\* copied to kernel_load_addr inside one of them, and overlapping or
\* unmappable regions make the build return GuestMemoryMmap; the only error
\* create_guest_memory returns is GuestMemoryMmap.
C18_GuestMemoryLayout ==
    \A b \in Builds :
        /\ MemoryCreated(b) =>
              /\ NonOverlapping(vmm[b].guest_memory)
              /\ vmm[b].kernel_at = Some(KERNEL_LOAD_ADDR)
              /\ IsLinux(target) => KernelRange \in vmm[b].guest_memory
              /\ IsMacos(target) =>
                    /\ vmm[b].guest_memory = {vmm[b].arch_mem_regions[i] :
                                                 i \in 1..Len(vmm[b].arch_mem_regions)}
                    /\ \E m \in vmm[b].guest_memory : Contains(m, KERNEL_LOAD_ADDR)
        /\ (MemoryComputed(b) /\ IsLinux(target)
               /\ (OverlapsKernel(vmm[b].arch_mem_regions) \/ ~vmm[b].mapped)) =>
              (ret[b] = Err("GuestMemoryMmap") /\ ~MemoryCreated(b))
        /\ (MemoryComputed(b) /\ ~vmm[b].mapped) =>
              (ret[b] = Err("GuestMemoryMmap") /\ ~MemoryCreated(b))
        /\ (pc[b] = "done" /\ StageName(b) = "create_guest_memory" /\ ret[b].kind = "Err") =>
              ret[b] = Err("GuestMemoryMmap")

C18_Witness ==
    \E b \in Builds :
        /\ IsLinux(target)
        /\ ret[b] = Err("GuestMemoryMmap")
        /\ vmm[b].mapped
        /\ OverlapsKernel(vmm[b].arch_mem_regions)
        /\ \E o \in Builds : MemoryCreated(o) /\ Cardinality(vmm[o].guest_memory) = 3

\* The vCPU factory of build b has returned its vector.
FactoryReturned(b) == stage[b] > StageIndex("create_vcpus")

\* C19: on macOS, once the factory has returned N vCPUs, N-1 channels have
\* been created, vCPU 0 holds no receiver and all N-1 senders, every other
\* vCPU holds one receiver and no sender, the k-th sender of vCPU 0 belongs
\* to the channel whose receiver vCPU k holds (k = 1..N-1, vCPUs counted from
\* 0), no two vCPUs hold the same receiver, and no thread has been started
\* before that; while the factory runs no vCPU holds a sender.
C19_BootChannelsOneToOne ==
    \A b \in Builds :
        IsMacos(target) =>
            /\ FactoryReturned(b) =>
                  LET n == Len(vcpus[b])
                  IN  /\ n = Cfg.vcpu_count
                      /\ Len(vmm[b].boot_senders) = n - 1
                      /\ vcpus[b][1].boot_receiver = 0
                      /\ vcpus[b][1].boot_senders = vmm[b].boot_senders
                      /\ \A k \in 1..(n - 1) :
                            /\ vcpus[b][k + 1].boot_receiver # 0
                            /\ vcpus[b][k + 1].boot_senders = <<>>
                            /\ vcpus[b][1].boot_senders[k] = vcpus[b][k + 1].boot_receiver
                      /\ \A i \in 1..n : \A j \in 1..n :
                            (i # j /\ vcpus[b][i].boot_receiver # 0) =>
                                vcpus[b][i].boot_receiver # vcpus[b][j].boot_receiver
            /\ ~FactoryReturned(b) =>
                  /\ vmm[b].vcpus_handles = <<>>
                  /\ \A i \in 1..Len(vcpus[b]) : vcpus[b][i].boot_senders = <<>>

C19_Witness ==
    \E b \in Builds :
        /\ IsMacos(target)
        /\ FactoryReturned(b)
        /\ Len(vcpus[b]) = MaxVcpus
        /\ Len(vcpus[b][1].boot_senders) = MaxVcpus - 1
        /\ vmm[b].vcpus_handles # <<>>

\* The virtio devices whose attach_* call build b has returned from with Ok.
Attached(b) ==
    (IF stage[b] > StageIndex("attach_balloon_device") THEN {Dev(b, "balloon", 0)} ELSE {})
    \cup (IF stage[b] > StageIndex("attach_console_devices") THEN {Dev(b, "console", 0)} ELSE {})
    \cup (IF stage[b] > StageIndex("attach_fs_devices")
          THEN {Dev(0, "fs", n) : n \in 1..Cfg.fs}
          ELSE IF stage[b] = StageIndex("attach_fs_devices")
               THEN {Dev(0, "fs", n) : n \in 1..idx[b]} ELSE {})
    \cup (IF stage[b] > StageIndex("attach_unixsock_vsock_device") /\ Cfg.vsock
          THEN {Dev(0, "vsock", 0)} ELSE {})
    \cup (IF stage[b] > StageIndex("add_subscriber_vmm") THEN {VmmDev(b)} ELSE {})

\* The statement of an attach_* function at which build b returned.
ReturnedAtStep(b) ==
    IF pc[b] = "done" /\ StageName(b) \in AttachStages
          /\ step[b] \in 1..Len(StepsOf(target, ClassOfStage(StageName(b))))
    THEN StepsOf(target, ClassOfStage(StageName(b)))[step[b]]
    ELSE "none"

\* C20: setup_serial_device returns Ok whether or not the reactor took the
\* serial device, and Err only as Internal, from the EventFd; a build, in
\* contrast, never gets past an attach_* call or the registration of its Vmm
\* without the device being a subscriber of its reactor, a build that stopped
\* at an add_subscriber call returned RegisterEvent, and the handle returned
\* with Ok is a subscriber.
C20_OnlySerialSwallowed ==
    /\ serial.add_subscriber = "Err" => (serial.kind = "Ok" /\ ~Subscribed(serial.em, SerialDev))
    /\ serial.add_subscriber = "Ok" => (serial.kind = "Ok" /\ Subscribed(serial.em, SerialDev))
    /\ serial.kind = "Err" => (serial.err = "Internal" /\ serial.add_subscriber = "none")
    /\ \A b \in Builds :
          /\ pc[b] # "idle" => \A d \in Attached(b) : Subscribed(em[b], d)
          /\ ReturnedAtStep(b) = "add_subscriber" => ret[b] = Err("RegisterEvent")
          /\ (pc[b] = "done" /\ StageName(b) = "add_subscriber_vmm") =>
                ret[b] = Err("RegisterEvent")
          /\ ret[b].kind = "Ok" => Subscribed(em[b], ret[b].handle)

C20_Witness ==
    /\ serial.kind = "Ok"
    /\ serial.add_subscriber = "Err"
    /\ \E b \in Builds :
          /\ ret[b] = Err("RegisterEvent")
          /\ ReturnedAtStep(b) = "add_subscriber"
          /\ StageName(b) = "attach_unixsock_vsock_device"
    /\ \E b \in Builds : ret[b].kind = "Ok"

\* C21 as stated: a build that is over returned Ok or a member of
\* StartMicrovmError to its caller, a build that returned an error executed
\* nothing of a later stage, and no operation on one device (or on one vCPU)
\* was executed twice within one build.
C21_FailFast ==
    \A b \in Builds :
        /\ pc[b] = "done" =>
              /\ ret[b].kind \in {"Ok", "Err"}
              /\ ret[b].kind = "Err" => ret[b].err \in StartMicrovmError
        /\ NoRepeat(trace[b])

\* MMIODeviceManager::get_device (crate device_manager): the device that was
\* registered under the type tag and the identifier, if any.
GetDevice(m, type, id) ==
    LET found == {r \in m.devices : r.type = type /\ r.id = id}
    IN  IF found = {} THEN None ELSE Some((CHOOSE r \in found : TRUE).dev)

\* C22: once an attach_* call has returned Ok, get_device with the device's
\* type tag and identifier yields that device, and it keeps doing so while and
\* after the later devices are attached, whether or not the build goes on to
\* succeed.
C22_AttachedDeviceRetrievable ==
    \A b \in Builds :
        \A d \in Attached(b) \ {VmmDev(b)} :
            GetDevice(mmio_device_manager[b], DeviceType(d), DeviceId(d)) = Some(d)

C22_Witness ==
    \E b \in Builds :
        /\ Dev(0, "vsock", 0) \in Attached(b)
        /\ GetDevice(mmio_device_manager[b], "TYPE_VSOCK", DeviceId(Dev(0, "vsock", 0)))
              = Some(Dev(0, "vsock", 0))
        /\ Cardinality(Attached(b) \ {VmmDev(b)}) = MaxFs + 3

\* The variants whose payload is an error of the host, of the hypervisor or
\* of a crate that wraps them.
NestedErrorVariants == StartMicrovmError \ (UnitVariants \cup {"KernelCmdline"})

\* C23 as stated: formatting any variant yields one message that starts with
\* the variant's own text, and the message of a variant carrying a nested
\* error contains no double quote.
C23_DisplayWithoutQuotes ==
    IsSome(display.message) =>
        LET msg == display.message[1]
        IN  /\ Len(msg) >= 1
            /\ msg[1] \notin Chars
            /\ display.self.variant \in NestedErrorVariants =>
                  \A i \in 2..Len(msg) : msg[i] # Quote

\* C24: a build has a legacy device (a port-I/O registration, an irqfd, the
\* RTC, the GIC window) only when its setup_interrupt_controller succeeded;
\* on x86_64 an irqfd is one of com_evt_1_3 on line 4, com_evt_2_4 on line 3
\* and kbd_evt on line 1 and exists only when register_devices succeeded, and
\* all three exist when the first vCPU is created.
C24_LegacyAfterIrqchip ==
    \A b \in Builds :
        /\ (vmm[b].legacy # {} \/ \E r \in Entries(b) : r.type = "RTC") => vmm[b].irqchip
        /\ IsX86(target) =>
              /\ \A l \in vmm[b].legacy \ {<<"pio", 0>>} :
                    /\ <<"pio", 0>> \in vmm[b].legacy
                    /\ l \in {<<"com_evt_1_3", 4>>, <<"com_evt_2_4", 3>>, <<"kbd_evt", 1>>}
              /\ Did(b, "vcpu_new") =>
                    vmm[b].legacy = {<<"pio", 0>>, <<"com_evt_1_3", 4>>, <<"com_evt_2_4", 3>>,
                                     <<"kbd_evt", 1>>}

C24_Witness ==
    \E b \in Builds :
        /\ IsX86(target)
        /\ vmm[b].irqchip
        /\ <<"kbd_evt", 1>> \in vmm[b].legacy
        /\ Len(vcpus[b]) = MaxVcpus

\* The virtio devices of a build in the order build_microvm attaches them.
AttachOrder(b) ==
    <<Dev(b, "balloon", 0), Dev(b, "console", 0)>>
    \o [n \in 1..Cfg.fs |-> Dev(0, "fs", n)]
    \o (IF Cfg.vsock THEN <<Dev(0, "vsock", 0)>> ELSE <<>>)

\* C25: a command line starts with the one seed, the prologue when the
\* configuration has one and DEFAULT_KERNEL_CMDLINE otherwise; what follows
\* are the descriptors of the attached devices, the i-th being the one of the
\* i-th device in attachment order, and the epilogue, which is last; once the
\* epilogue stage is over the line is the seed, on x86_64 one descriptor per
\* device, and the epilogue if the configuration has one.
C25_CmdlineOrder ==
    \A b \in Builds :
        LET t == kernel_cmdline[b].tokens
            n == Len(t)
            closed == stage[b] > StageIndex("cmdline_epilog")
            descriptors == IF IsX86(target) THEN Len(AttachOrder(b)) ELSE 0
        IN  /\ n >= 1 =>
                  t[1] = Token(IF IsSome(Cfg.prolog) THEN "prolog" ELSE "default", 0, 0)
            /\ \A i \in 2..n :
                  IF t[i].kind = "epilog"
                  THEN i = n /\ IsSome(Cfg.epilog) /\ closed
                  ELSE /\ t[i].kind = "virtio_mmio.device"
                       /\ i - 1 <= Len(AttachOrder(b))
                       /\ \E r \in Entries(b) :
                             /\ r.dev = AttachOrder(b)[i - 1]
                             /\ r.base = t[i].base
                             /\ r.irq = t[i].irq
            /\ closed =>
                  n = 1 + descriptors + (IF IsSome(Cfg.epilog) THEN 1 ELSE 0)

C25_Witness ==
    \E b \in Builds :
        /\ ret[b].kind = "Ok"
        /\ IsX86(target)
        /\ IsSome(Cfg.prolog)
        /\ Len(kernel_cmdline[b].tokens) = MaxFs + 5
        /\ kernel_cmdline[b].tokens[MaxFs + 5].kind = "epilog"

\* The device descriptors in a build's command line, in order.
Descriptors(b) ==
    SelectSeq(kernel_cmdline[b].tokens, LAMBDA t : t.kind = "virtio_mmio.device")

\* The statement of attach_mmio_device build b is at or returned from, and the
\* device that call was given.
MmioStatement(b) ==
    LET steps == StepsOf(target, ClassOfStage(StageName(b)))
    IN  IF /\ pc[b] # "idle"
           /\ StageName(b) \in AttachStages
           /\ step[b] \in 1..Len(steps)
           /\ mstep[b] \in 1..Len(AttachMmioSteps(target))
           /\ steps[step[b]] = "attach_mmio_device"
        THEN AttachMmioSteps(target)[mstep[b]]
        ELSE "none"

MmioDevice(b) ==
    CASE StageName(b) = "attach_balloon_device" -> Dev(b, "balloon", 0)
      [] StageName(b) = "attach_console_devices" -> Dev(b, "console", 0)
      [] StageName(b) = "attach_fs_devices" -> Dev(0, "fs", idx[b] + 1)
      [] StageName(b) = "attach_unixsock_vsock_device" -> Dev(0, "vsock", 0)
      [] OTHER -> NoDev

\* C26: on aarch64 a command line has no device descriptor; on x86_64 no
\* descriptor occurs twice, each carries the base and the line of a virtio
\* device in the registry, there is one per registered device except for a
\* device between its register_mmio_device and its add_device_to_cmdline, and
\* a build that returned from a failed register_mmio_device has exactly the
\* descriptors of the devices registered before.
C26_DescriptorAfterRegistration ==
    \A b \in Builds :
        LET ds == Descriptors(b)
        IN  /\ IsAarch64(target) => ds = <<>>
            /\ NoRepeat(ds)
            /\ \A i \in 1..Len(ds) :
                  \E r \in Entries(b) :
                      r.dev # NoDev /\ r.base = ds[i].base /\ r.irq = ds[i].irq
            /\ IsX86(target) =>
                  Len(ds) = Cardinality(Registered(b))
                            - (IF MmioStatement(b) = "add_device_to_cmdline" THEN 1 ELSE 0)
            /\ (pc[b] = "done" /\ MmioStatement(b) = "register_mmio_device") =>
                  /\ MmioDevice(b) \notin Registered(b)
                  /\ ret[b] = Err(MmioErrOf(MmioDevice(b).class))

C26_Witness ==
    \E b \in Builds :
        /\ IsX86(target)
        /\ pc[b] = "done"
        /\ MmioStatement(b) = "register_mmio_device"
        /\ MmioDevice(b) = Dev(0, "vsock", 0)
        /\ Len(Descriptors(b)) = MaxFs + 2

\* C27: while a build is inside attach_mmio_device for a device, that device
\* holds the build's interrupt controller, if the target has one, and, if it
\* is a filesystem device and the build has a shared-memory window, that
\* window; the devices the build has registered so far hold the same
\* controller and the same window, and the controller is the one every vCPU
\* of the build was created with.  Where the target has no controller, or the
\* build no window, nothing is injected.
C27_InjectedBeforeAttach ==
    \A b \in Builds :
        (pc[b] = "run" /\ MmioStatement(b) # "none") =>
            LET ds == Registered(b) \cup {MmioDevice(b)}
            IN  /\ \A d \in ds :
                      /\ devstate[d].intc = vmm[b].intc
                      /\ d.class = "fs" =>
                            devstate[d].shm = (IF vmm[b].shm_region THEN b ELSE 0)
                /\ \A i \in 1..Len(vcpus[b]) :
                      IsMacos(target) => vcpus[b][i].intc = vmm[b].intc
                /\ IsMacos(target) <=> vmm[b].intc # 0
                /\ IsLinux(target) <=> vmm[b].shm_region

C27_Witness ==
    \E b \in Builds :
        /\ pc[b] = "run"
        /\ MmioStatement(b) = "register_mmio_device"
        /\ MmioDevice(b) = Dev(0, "fs", MaxFs)
        /\ vmm[b].intc # 0
        /\ devstate[Dev(0, "fs", MaxFs)].intc = vmm[b].intc
        /\ Len(vcpus[b]) = MaxVcpus
        /\ vcpus[b][MaxVcpus].intc = vmm[b].intc

\* C28: every vCPU in a build's vector has the kernel's guest address, which
\* is where the build's guest memory holds the kernel, as entry address, the
\* build's guest memory, and a clone of the build's exit event; on x86_64 it
\* has the bus of the build's port-I/O manager and elsewhere none; the exit
\* event, and on x86_64 the port-I/O manager, exist when the first vCPU is
\* created.
C28_VcpuConfiguration ==
    \A b \in Builds :
        /\ \A i \in 1..Len(vcpus[b]) :
              LET v == vcpus[b][i]
              IN  /\ v.entry_addr = Some(KERNEL_LOAD_ADDR)
                  /\ v.entry_addr = vmm[b].kernel_at
                  /\ v.guest_mem = b
                  /\ vmm[b].guest_memory # {}
                  /\ v.exit_evt = b
                  /\ v.io_bus = (IF IsX86(target) THEN b ELSE 0)
        /\ (vmm[b].vcpu # <<>> \/ vcpus[b] # <<>>) =>
              (vmm[b].exit_evt /\ (IsX86(target) => vmm[b].pio))

C28_Witness ==
    \E b \in Builds :
        /\ IsX86(target)
        /\ Len(vcpus[b]) = MaxVcpus
        /\ \A i \in 1..MaxVcpus :
              /\ vcpus[b][i].entry_addr = vmm[b].kernel_at
              /\ vcpus[b][i].io_bus = b
              /\ vcpus[b][i].exit_evt = b

\* C29: a build that is at or past start_vcpus has its guest memory, its Vm,
\* its interrupt controller, its legacy devices, its Vmm, every virtio device
\* registered, on x86_64 the command line loaded, and the system configured;
\* a build that returned from configure_system or from anything before it
\* started no vCPU; a build that has started vCPUs and is over returned Ok or
\* RegisterEvent.
C29_NoVcpuStartedBeforeConfigured ==
    \A b \in Builds :
        /\ (pc[b] # "idle" /\ stage[b] >= StageIndex("start_vcpus")) =>
              /\ vmm[b].guest_memory # {}
              /\ vmm[b].vm
              /\ vmm[b].irqchip
              /\ LegacyAttached(b)
              /\ vmm[b].built
              /\ Registered(b) = AllDevices(b)
              /\ IsX86(target) => vmm[b].cmdline_loaded = 1
              /\ vmm[b].configured
        /\ (pc[b] = "done" /\ stage[b] <= StageIndex("configure_system")) =>
              (vmm[b].vcpus_handles = <<>> /\ ~Did(b, "start_vcpus"))
        /\ (pc[b] = "done" /\ vmm[b].vcpus_handles # <<>>) =>
              ret[b] \in {Ok(VmmDev(b)), Err("RegisterEvent")}

C29_Witness ==
    \E b \in Builds :
        /\ ret[b] = Err("RegisterEvent")
        /\ StageName(b) = "add_subscriber_vmm"
        /\ Len(vmm[b].vcpus_handles) = MaxVcpus
        /\ vmm[b].configured

\* The subscribers of an EventManager.
Subscribers(e) == {reactor[e][i] : i \in 1..Len(reactor[e])}

====
